---- MODULE Spec2Model ----
(***************************************************************************)
(* Emergency-dispatch dashboard (emergency-dispatch-ui).                   *)
(*                                                                         *)
(* Three state machines share this module:                                 *)
(*   SpecApi    the request engine, apiRequest of services/api.ts;         *)
(*   SpecRecon  the dispatch-state reconciler of components/dashboard.tsx  *)
(*              (fetchEmergenciesQueue, fetchData, handleDispatchSuccess); *)
(*   SpecTimers the polling orchestrator of components/dashboard.tsx       *)
(*              (the interval handles, the handlers that start and stop    *)
(*              them and the effects that clean them up).                  *)
(* Each specification leaves the variables of the other two unchanged.     *)
(***************************************************************************)
EXTENDS Integers, Sequences, FiniteSets, TLC

(***************************************************************************)
(* Request engine: services/api.ts, apiRequest                             *)
(***************************************************************************)
VARIABLES
    apiPc,          \* position in apiRequest: idle, fetching, backoff, returned, thrown
    retries,        \* the retries parameter of the call
    attempt,        \* the loop variable of the retry loop
    lastError,      \* message of lastError, as a sequence of tokens
    timeoutId,      \* TRUE while the timeout timer armed before the loop is pending
    aborted,        \* TRUE once controller.abort() has run (signal.aborted)
    abortKind,      \* what an aborted fetch rejects with in this runtime
    delays,         \* history: the backoff delays waited so far, in order
    outcomes,       \* history: what each fetch attempt ended in
    perfSamples,    \* number of trackApiPerformance calls
    apiResult       \* what the call returned or threw

apiVars == <<apiPc, retries, attempt, lastError, timeoutId, aborted, abortKind,
             delays, outcomes, perfSamples, apiResult>>

\* A function of services/api.ts that wraps apiRequest, and the handleDispatch
\* of ResourcePanel that awaits dispatchResource.
VARIABLES
    caller,         \* <<>>, or <<the function called and its parameters>>
    callerResult,   \* what the function returned or threw
    uiOutcome,      \* what handleDispatch did with it
    overdue         \* history: the deadline has passed on an attempt that no timer aborts

callerVars == <<caller, callerResult, uiOutcome, overdue>>

\* The clock and the localStorage entries of ResourceCache.
VARIABLES
    now,                \* Date.now(), in ms
    cachedResources,    \* entry CACHE_KEYS.RESOURCES: <<>> or <<payload>>
    cachedEmergencies,  \* entry CACHE_KEYS.EMERGENCIES: <<>> or <<payload>>
    cacheTimestamp,     \* entry CACHE_KEYS.TIMESTAMP: <<>> or <<time>>
    written,            \* history: when each payload was last written, <<>> if never
    got                 \* history: the last get, its key and what it returned

cacheVars == <<now, cachedResources, cachedEmergencies, cacheTimestamp, written, got>>

\* The entries of cacheVars but the clock.
cacheEntries == <<cachedResources, cachedEmergencies, cacheTimestamp, written, got>>

\* The session snapshot in localStorage and the resume prompt of Dashboard.
VARIABLES
    appOpen,                    \* the application is open (the Dashboard mounted)
    simulationState,            \* entry "simulationState": <<>> or <<snapshot>>
    simulationStartTime,        \* entry "simulationStartTime": <<>> or <<time>>
    recoveryNotificationShown,  \* entry "recoveryNotificationShown" is set
    toast,                      \* the "Simulation Recovery" toast and what it captured
    pendingReset,               \* <<>> or <<closure of the handleReset in flight>>
    effectPending               \* the mount effect is due to run again

snapshotVars == <<appOpen, simulationState, simulationStartTime,
                  recoveryNotificationShown, toast, pendingReset, effectPending>>

storageVars == <<cacheVars, snapshotVars>>

\* The auto-fetch poller against the server's count of active calls.
VARIABLES
    requestCount,       \* status.requestCount at the server
    autoTicks,          \* the auto-fetch ticks that wait for a response
    nexts,              \* the GET /calls/next requests on their way to the server
    issued              \* what the last /calls/next of a tick was issued on

thresholdVars == <<requestCount, autoTicks, nexts, issued>>

\* The localStorage entries of Logger, and how many entries each was given.
VARIABLES
    emercery_logs,
    emercery_errors,
    emercery_api_performance,
    logged,
    tracked,
    measured

loggerVars == <<emercery_logs, emercery_errors, emercery_api_performance,
                logged, tracked, measured>>

\* The elapsed-time ticker of Dashboard.
VARIABLES
    ticker,             \* <<>> or <<the interval of timerRef, with what its callback captured>>
    elapsedTime,        \* the display, <<hours, minutes, seconds>>
    sessionStart,       \* the instant the ticker was last started
    cleanupDue          \* the mount effect is due to run again

tickerVars == <<ticker, elapsedTime, sessionStart, cleanupDue>>

restVars == <<thresholdVars, loggerVars, tickerVars>>

\* State of the Dashboard and ResourcePanel components (the reconciler below).
VARIABLES
    emergencies,        \* useState<EmergencyCall[]>
    resources,          \* useState<EmergencyResource[]>
    selectedEmergency,  \* useState<EmergencyCall | null>
    selectedResource,   \* useState<EmergencyResource | null>
    emergencyStats,     \* useState<EmergencyStats>
    totalDispatched,    \* useState(0)
    totalDistance,      \* useState(0)
    isSimulationRunning,\* useState(false)
    pollerSel,          \* the data poller's closure: <<>> when no poller is installed,
                        \* else <<selectedEmergency of the render that installed it>>
    queuePolls,         \* fetchEmergenciesQueue calls in flight, oldest first
    dataPolls,          \* fetchData calls in flight, oldest first
    dispatching,        \* the handleDispatch call in flight (isDispatching), or <<>>
    dispatchCount       \* history: dispatch clicks so far

reconVars == <<emergencies, resources, selectedEmergency, selectedResource,
               emergencyStats, totalDispatched, totalDistance, isSimulationRunning,
               pollerSel, queuePolls, dataPolls, dispatching, dispatchCount>>

\* reconVars but isSimulationRunning, which the polling orchestrator writes too.
reconRest == <<emergencies, resources, selectedEmergency, selectedResource,
               emergencyStats, totalDispatched, totalDistance,
               pollerSel, queuePolls, dataPolls, dispatching, dispatchCount>>

\* reconVars but what the session snapshot is made of and restored to.
reconUntouched == <<emergencies, resources, selectedEmergency, selectedResource,
                    emergencyStats, pollerSel, queuePolls, dataPolls, dispatching,
                    dispatchCount>>

\* State of the polling orchestrator of Dashboard.  An interval handle is a
\* positive number and null is 0.
VARIABLES
    refreshInterval,        \* useState<NodeJS.Timeout | null>: the data poller
    statusRefreshInterval,  \* useState<NodeJS.Timeout | null>: the status poller
    autoFetchInterval,      \* useState<NodeJS.Timeout | null>: the auto-fetch poller
    timerRef,               \* useRef: the elapsed-time ticker
    isAutoDispatch,         \* useState(false)
    autoFetchEnabled,       \* useState(false)
    startTime,              \* useState<Date | null>: 0 is null, 1 a Date
    mounted,                \* the Dashboard is mounted
    timers,                 \* the intervals of the page that are set and not cleared
    mountEffect,            \* handles in the closure of the cleanup of the mount effect
    autoEffect,             \* autoFetchIntervalId of the cleanup of the auto-fetch effect
    queued,                 \* setAutoFetchInterval calls of an effect, not yet rendered
    calls,                  \* handlers and ticks waiting for a response
    stopped,                \* history: handleStop has completed and no start was asked since
    lastRead                \* history: what the status tick of a poller set by handleReset
                            \* read in the last step, or "none"

orchestratorVars == <<refreshInterval, statusRefreshInterval, autoFetchInterval, timerRef,
                      isAutoDispatch, autoFetchEnabled, startTime, mounted, timers,
                      mountEffect, autoEffect, queued, calls, stopped, lastRead>>

\* orchestratorVars but startTime.
orchestratorUntouched == <<refreshInterval, statusRefreshInterval, autoFetchInterval,
                           timerRef, isAutoDispatch, autoFetchEnabled, mounted, timers,
                           mountEffect, autoEffect, queued, calls, stopped, lastRead>>

\* API_CONFIG
MAX_RETRIES == 3
RETRY_DELAY_BASE == 750
DEFAULT_TIMEOUT == 15000
MAX_DELAY == 5000

\* Largest retries argument a call is made with (the default is MAX_RETRIES).
MaxRetriesArg == 5

\* HTTP statuses a server answers with.
Statuses == {200, 400, 404, 500, 503}

StatusText(status) ==
    CASE status = 200 -> "OK"
      [] status = 400 -> "Bad Request"
      [] status = 404 -> "Not Found"
      [] status = 500 -> "Internal Server Error"
      [] status = 503 -> "Service Unavailable"

\* Decimal digits of a three-digit status, as tokens: the hundreds digit and the rest.
HundredsDigit(status) ==
    CASE status \div 100 = 2 -> "2"
      [] status \div 100 = 4 -> "4"
      [] status \div 100 = 5 -> "5"

LowDigits(status) ==
    CASE status % 100 = 0 -> "00"
      [] status % 100 = 3 -> "03"
      [] status % 100 = 4 -> "04"

\* Messages are sequences of tokens; String.prototype.includes is a contiguous
\* sub-sequence test on them.
includes(message, needle) ==
    \E i \in 1..(Len(message) - Len(needle) + 1) :
        SubSeq(message, i, i + Len(needle) - 1) = needle

NoField == <<>>

\* Texts a server puts in the detail or message field of a JSON error body.
DetailTexts == { <<"Invalid quantity">>, <<"Database down">>, <<"upstream ", "fetch failed">> }

\* Error bodies: JSON carrying detail, JSON carrying message, JSON carrying
\* neither, and a body that is not JSON.
Bodies ==
    { [json |-> TRUE, detail |-> d, message |-> NoField] : d \in DetailTexts }
    \cup { [json |-> TRUE, detail |-> NoField, message |-> d] : d \in DetailTexts }
    \cup { [json |-> TRUE, detail |-> NoField, message |-> NoField],
           [json |-> FALSE, detail |-> NoField, message |-> NoField] }

\* Messages with which fetch rejects on a transport failure: undici ("fetch
\* failed"), Chromium ("Failed to fetch"), WebKit ("Load failed").
NetworkMessages == { <<"fetch failed">>, <<"Failed to fetch">>, <<"Load failed">> }

\* response.ok
ok(status) == status >= 200 /\ status <= 299

\* errorMessage of a response that is not ok.  A body that is not JSON makes
\* response.json() throw after it has consumed the body, so the response.text()
\* that follows rejects as well and the default message stays.
errorMessage(status, body) ==
    LET default == <<"API error (", HundredsDigit(status), LowDigits(status), "): ",
                     StatusText(status)>>
    IN  IF ~body.json THEN default
        ELSE IF body.detail # NoField THEN body.detail
        ELSE IF body.message # NoField THEN body.message
        ELSE default

\* What a fetch on an aborted signal rejects with: the DOMException named
\* AbortError (runtimes that ignore the abort reason) or the reason itself, the
\* string "Request timeout" (runtimes that reject with signal.reason).
AbortKinds == {"AbortError", "reason"}

timeoutMessage == <<"Request timeout after ", "timeout", "ms">>

\* An error caught by the catch block: its name and its message.
AbortErrorOf(kind) ==
    IF kind = "AbortError"
    THEN [name |-> "AbortError", message |-> <<"The user aborted a request.">>]
    ELSE [name |-> "undefined", message |-> <<"Request timeout">>]

\* lastError as the catch block leaves it.
lastErrorOf(error) ==
    IF error.name = "AbortError" THEN timeoutMessage ELSE error.message

shouldRetry(error) ==
    \/ error.name = "AbortError"
    \/ includes(lastErrorOf(error), <<"fetch failed">>)
    \/ includes(lastErrorOf(error), <<"API error (", "5">>)

Min(a, b) == IF a < b THEN a ELSE b
\* Mutant: no clamp.
Max_second(a, b) == b

Max(a, b) == IF a > b THEN a ELSE b

Pow2(n) == IF n = 0 THEN 1 ELSE IF n = 1 THEN 2 ELSE IF n = 2 THEN 4
           ELSE IF n = 3 THEN 8 ELSE IF n = 4 THEN 16 ELSE 32

\* Mutant: no cap on the delay.
delay_uncapped(k) == RETRY_DELAY_BASE * Pow2(k - 1)

\* Mutant: the delay does not grow with the attempt number.
delay_constant(k) == Min(RETRY_DELAY_BASE, MAX_DELAY)

delay(k) == Min(RETRY_DELAY_BASE * Pow2(k - 1), MAX_DELAY)

\* Nothing returned or thrown yet.
NoResult == [kind |-> "none"]

\* The ApiResponse returned (data and headers left out) and the ApiError thrown.
ApiResponse(status) == [kind |-> "response", status |-> status]

ApiError(message, r) ==
    [kind |-> "ApiError",
     message |-> IF message = <<>> THEN <<"Unknown API error">> ELSE message,
     retries |-> r]

ApiInit ==
    /\ apiPc = "idle"
    /\ retries = MAX_RETRIES
    /\ attempt = 0
    /\ lastError = <<>>
    /\ timeoutId = FALSE
    /\ aborted = FALSE
    /\ abortKind \in AbortKinds
    /\ delays = <<>>
    /\ outcomes = <<>>
    /\ perfSamples = 0
    /\ apiResult = NoResult

\* The call: the timeout is armed once, before the loop, and the first
\* iteration issues the first fetch.
apiRequest(r) ==
    /\ UNCHANGED <<callerVars, storageVars, restVars, reconVars, orchestratorVars>>
    /\ apiPc = "idle"
    /\ apiPc' = "fetching"
    /\ retries' = r
    /\ attempt' = 1
    /\ timeoutId' = TRUE
    /\ UNCHANGED <<lastError, aborted, abortKind, delays, outcomes, perfSamples, apiResult>>

\* Mutant: the last attempt retries too.
attemptsRemain_inclusive(a, r) == a <= r

\* attempt < retries
attemptsRemain(a, r) == a < r

\* The catch block of the loop, for the error the attempt threw.
catch(error, outcome) ==
    /\ lastError' = lastErrorOf(error)
    /\ timeoutId' = FALSE
    /\ outcomes' = Append(outcomes, outcome)
    /\ IF shouldRetry(error) /\ attemptsRemain(attempt, retries)
       THEN /\ apiPc' = "backoff"
            /\ delays' = Append(delays, delay(attempt))
            /\ apiResult' = apiResult
       ELSE /\ apiPc' = "thrown"
            /\ delays' = delays
            /\ apiResult' = ApiError(lastErrorOf(error), retries)
    /\ UNCHANGED <<retries, attempt, abortKind>>

\* fetch resolves with a response.
fetchResponds(status, body) ==
    /\ UNCHANGED <<callerVars, storageVars, restVars, reconVars, orchestratorVars>>
    /\ apiPc = "fetching"
    /\ ~aborted
    /\ perfSamples' = perfSamples + 1
    /\ aborted' = aborted
    /\ IF ok(status)
       THEN /\ apiPc' = "returned"
            /\ timeoutId' = FALSE
            /\ outcomes' = Append(outcomes, [kind |-> "response", status |-> status])
            /\ apiResult' = ApiResponse(status)
            /\ UNCHANGED <<retries, attempt, lastError, abortKind, delays>>
       ELSE catch([name |-> "Error", message |-> errorMessage(status, body)],
                  [kind |-> "response", status |-> status])

\* fetch rejects with a TypeError: transport-level failure.
fetchFails(message) ==
    /\ UNCHANGED <<callerVars, storageVars, restVars, reconVars, orchestratorVars>>
    /\ apiPc = "fetching"
    /\ ~aborted
    /\ UNCHANGED <<perfSamples, aborted>>
    /\ catch([name |-> "TypeError", message |-> message],
             [kind |-> "network", status |-> 0])

\* The timeout timer fires while the fetch is in flight: controller.abort(
\* "Request timeout") makes the fetch reject.
timeoutFires ==
    /\ UNCHANGED <<callerVars, storageVars, restVars, reconVars, orchestratorVars>>
    /\ apiPc = "fetching"
    /\ timeoutId
    /\ aborted' = TRUE
    /\ UNCHANGED perfSamples
    /\ catch(AbortErrorOf(abortKind), [kind |-> "timeout", status |-> 0])

\* A fetch issued on the signal of a controller that has aborted rejects at once.
fetchOnAbortedSignal ==
    /\ UNCHANGED <<callerVars, storageVars, restVars, reconVars, orchestratorVars>>
    /\ apiPc = "fetching"
    /\ aborted
    /\ UNCHANGED <<perfSamples, aborted>>
    /\ catch(AbortErrorOf(abortKind), [kind |-> "timeout", status |-> 0])

\* The backoff delay has elapsed: next iteration (clearTimeout, then fetch).
backoffElapsed ==
    /\ UNCHANGED <<callerVars, storageVars, restVars, reconVars, orchestratorVars>>
    /\ apiPc = "backoff"
    /\ apiPc' = "fetching"
    /\ attempt' = attempt + 1
    /\ timeoutId' = FALSE
    /\ UNCHANGED <<retries, lastError, aborted, abortKind, delays, outcomes,
                   perfSamples, apiResult>>

ApiNext ==
    \/ \E r \in 1..MaxRetriesArg : apiRequest(r)
    \/ \E status \in Statuses, body \in Bodies : fetchResponds(status, body)
    \/ \E message \in NetworkMessages : fetchFails(message)
    \/ timeoutFires
    \/ fetchOnAbortedSignal
    \/ backoffElapsed

(***************************************************************************)
(* Dispatch-state reconciler: components/dashboard.tsx, resource-panel.tsx *)
(*                                                                         *)
(* A handler runs in segments separated by its awaits.  The values a       *)
(* segment reads from React state are those of the render in which the     *)
(* handler was created (its closure), kept here in the record of the call  *)
(* in flight; functional updates (setX(prev => ...)) read the current      *)
(* state.  Null is the empty sequence and a value v is <<v>>.              *)
(***************************************************************************)
\* handleReset, handleFetchNext and the data poller start only if the calls
\* they make (two, one and two) leave at most MaxInFlight calls in flight; the
\* calls of handleDispatchSuccess come on top.  Dispatch clicks in a run.
MaxInFlight == 2
MaxDispatches == 1

\* EmergencyType values in use (of Medical, Police, Fire, Rescue, Utility).
Types == {"Medical", "Fire"}

\* (city, county) of the emergencies the server has, in queue order.
Places == << [city |-> "Arad", county |-> "AR"], [city |-> "Arad", county |-> "TM"] >>

\* The requests of each, one per type needed.
Requests ==
    << << [Type |-> "Medical", Quantity |-> 2] >>,
       << [Type |-> "Medical", Quantity |-> 1], [Type |-> "Fire", Quantity |-> 1] >> >>

\* Supply groups the server has, and the quantities it reports for each.
Supplies == << [city |-> "Arad", county |-> "AR", type |-> "Medical"],
               [city |-> "Arad", county |-> "TM", type |-> "Medical"] >>
Quantities == << {3}, {3} >>

\* Largest dispatchQuantity the operator enters.
MaxQuantity == 2

\* Control status as the server reports it; <<>> is a failed read (null).
ControlStatuses ==
    { <<>>,
      << [status |-> "Running", totalDispatches |-> 0, distance |-> 0] >>,
      << [status |-> "Stopped", totalDispatches |-> 0, distance |-> 0] >> }

\* Sub-sequence of seq at the indices in keep, in order.
RECURSIVE Select(_, _, _)
Select(seq, keep, i) ==
    IF i > Len(seq) THEN <<>>
    ELSE (IF i \in keep THEN <<seq[i]>> ELSE <<>>) \o Select(seq, keep, i + 1)

\* GET /calls/queue bodies: any part of the queue.
QueueResponses ==
    { Select([i \in 1..Len(Places) |->
                [city |-> Places[i].city, county |-> Places[i].county,
                 requests |-> Requests[i]]], keep, 1)
      : keep \in SUBSET (1..Len(Places)) }

\* GET /<type>/search bodies, flattened by fetchAllAvailableResources; every
\* search failing gives the empty list.
ResourceResponses ==
    { <<>> } \cup
    { [i \in 1..Len(Supplies) |->
          [city |-> Supplies[i].city, county |-> Supplies[i].county,
           type |-> Supplies[i].type, quantity |-> q[i]]]
      : q \in { f \in [1..Len(Supplies) -> 0..3] :
                   \A i \in 1..Len(Supplies) : f[i] \in Quantities[i] } }

\* Quantities the server reports once units of the first supply have left, in
\* GET /<type>/search bodies as validateResource passes them on.
LoweredQuantities == << {1, 3}, {3} >>
SupplyReports ==
    { [i \in 1..Len(Supplies) |->
          [city |-> Supplies[i].city, county |-> Supplies[i].county,
           type |-> Supplies[i].type, quantity |-> q[i]]]
      : q \in { f \in [1..Len(Supplies) -> 0..3] :
                   \A i \in 1..Len(Supplies) : f[i] \in LoweredQuantities[i] } }

\* The whole queue, and the statuses of a simulation that runs.
WholeQueue == {response \in QueueResponses : Len(response) = Len(Places)}
RunningStatuses == {statusData \in ControlStatuses \ {<<>>} : statusData[1].status = "Running"}

RECURSIVE Sum(_)
Sum(seq) == IF seq = <<>> THEN 0 ELSE seq[1] + Sum(Tail(seq))

\* calculateDistance, on the places of the model.
calculateDistance(resource, emergency) ==
    IF resource.county = emergency.county THEN 1 ELSE 2

\* (dispatched as Record<EmergencyType, number>)?.[type] || 0
dispatchedOf(emergency, type) ==
    IF type \in DOMAIN emergency.dispatched THEN emergency.dispatched[type] ELSE 0

\* Object.fromEntries(requests.map((req) => [req.Type, 0]))
zeroDispatched(requests) ==
    [t \in {requests[i].Type : i \in 1..Len(requests)} |-> 0]

\* fetchEmergencyCalls: the response with dispatched initialised; [] on failure
\* (a failed request is the empty response here).
fetchEmergencyCalls(response) ==
    [i \in 1..Len(response) |->
        [city |-> response[i].city, county |-> response[i].county,
         requests |-> response[i].requests,
         dispatched |-> zeroDispatched(response[i].requests)]]

\* What fetchEmergencyCalls returns from its catch block, when the request
\* has failed after its retries.
FailedResponse == <<>>

\* getRemainingNeededByType of resource-panel.tsx, for the emergency selected.
getRemainingNeededByType(emergency, type) ==
    LET totalNeeded == Sum([i \in 1..Len(emergency.requests) |->
                              IF emergency.requests[i].Type = type
                              THEN emergency.requests[i].Quantity ELSE 0])
        dispatched == dispatchedOf(emergency, type)
    IN  Max(0, totalNeeded - dispatched)

\* One request's contribution to the stats of type t.
statsOfRequest(emergency, req, t) ==
    IF req.Type # t THEN [total |-> 0, dispatched |-> 0, pending |-> 0]
    ELSE [total |-> req.Quantity,
          dispatched |-> dispatchedOf(emergency, req.Type),
          pending |-> Max(0, req.Quantity - dispatchedOf(emergency, req.Type))]

calculateEmergencyStats(es) ==
    LET perEmergency(e, t, field) ==
            Sum([i \in 1..Len(e.requests) |-> statsOfRequest(e, e.requests[i], t)[field]])
        total(t, field) == Sum([k \in 1..Len(es) |-> perEmergency(es[k], t, field)])
    IN  [totalCalls |-> Len(es),
         totalRequests |-> [t \in Types |-> total(t, "total")],
         pendingRequests |-> [t \in Types |-> total(t, "pending")],
         dispatchedRequests |-> [t \in Types |-> total(t, "dispatched")]]

\* Mutant: emergencies are told apart by city alone.
sameCity(a, b) == a.city = b.city

\* e.city === x.city && e.county === x.county
sameEmergency(a, b) == a.city = b.city /\ a.county = b.county

sameResource(a, b) == a.city = b.city /\ a.county = b.county /\ a.type = b.type

\* Array.prototype.find: <<first element satisfying Test>> or <<>>.
find(seq, Test(_)) ==
    LET hits == { i \in 1..Len(seq) : Test(seq[i]) }
    IN  IF hits = {} THEN <<>>
        ELSE <<seq[CHOOSE i \in hits : \A j \in hits : i <= j]>>

ReconInit ==
    /\ emergencies = <<>>
    /\ resources = <<>>
    /\ selectedEmergency = <<>>
    /\ selectedResource = <<>>
    /\ emergencyStats = calculateEmergencyStats(<<>>)
    /\ totalDispatched = 0
    /\ totalDistance = 0
    /\ isSimulationRunning = FALSE
    /\ pollerSel = <<>>
    /\ queuePolls = <<>>
    /\ dataPolls = <<>>
    /\ dispatching = <<>>
    /\ dispatchCount = 0

\* A fetchEmergenciesQueue call in flight.  selectedEmergency is the selection
\* its closure holds; then is what the caller does when the call returns
\* ("fetchData": handleDispatchSuccess, "install": handleReset, "none": the
\* data poller and handleFetchNext).  seen is history: the last optimistic
\* update made while the call was in flight.
QueuePoll(sel, then) == [selectedEmergency |-> sel, then |-> then, seen |-> <<>>]

\* A fetchData call in flight; then = "queue" for the call of handleReset, which
\* goes on to fetchEmergenciesQueue with the selection of its closure.
DataPoll(sel, then) == [selectedEmergency |-> sel, then |-> then]

Remove(seq, i) == [j \in 1..(Len(seq) - 1) |-> IF j < i THEN seq[j] ELSE seq[j + 1]]

\* Mutant: the dispatched counts of the previous list are dropped.
reconcile_reset(prevEmergencies, emergenciesData) ==
    [i \in 1..Len(emergenciesData) |->
        [emergenciesData[i] EXCEPT !.dispatched = zeroDispatched(emergenciesData[i].requests)]]

\* The updater fetchEmergenciesQueue gives setEmergencies.  A dispatched map
\* is an object, so `prevEmergency && prevEmergency.dispatched` is true
\* whenever the emergency is found.
reconcile(prevEmergencies, emergenciesData) ==
    [i \in 1..Len(emergenciesData) |->
        LET newEmergency == emergenciesData[i]
            prevEmergency == find(prevEmergencies, LAMBDA e : sameEmergency(e, newEmergency))
        IN  IF prevEmergency # <<>>
            THEN [newEmergency EXCEPT !.dispatched = prevEmergency[1].dispatched]
            ELSE [newEmergency EXCEPT !.dispatched = zeroDispatched(newEmergency.requests)]]

\* The second half of fetchEmergenciesQueue: the selection after the call, for
\* the selection sel of the closure (non-null).
reselect(sel, emergenciesData) ==
    LET updatedEmergency == find(emergenciesData, LAMBDA e : sameEmergency(e, sel))
    IN  IF updatedEmergency # <<>>
        THEN << [updatedEmergency[1] EXCEPT !.dispatched = sel.dispatched] >>
        ELSE <<>>

\* updatedDispatched[type] = (updatedDispatched[type] || 0) + quantity
addDispatched(dispatched, type, quantity) ==
    [t \in DOMAIN dispatched \cup {type} |->
        IF t = type
        THEN (IF type \in DOMAIN dispatched THEN dispatched[type] ELSE 0) + quantity
        ELSE dispatched[t]]

\* canDispatch of resource-panel.tsx, for the props and the quantity entered.
canDispatch(selEmergency, selResource, dispatchQuantity) ==
    /\ selResource # <<>> /\ selEmergency # <<>>
    /\ dispatchQuantity > 0
    /\ dispatchQuantity <= selResource[1].quantity
    /\ getRemainingNeededByType(selEmergency[1], selResource[1].type) > 0
    /\ \E i \in 1..Len(selEmergency[1].requests) :
          selEmergency[1].requests[i].Type = selResource[1].type

\* The cleanup of the mount effect of Dashboard clears the data poller when
\* the effect re-runs, which it does when handleReset is a new function:
\* handleReset depends (through fetchData, fetchEmergenciesQueue and
\* saveSimulationState) on selectedEmergency, isSimulationRunning,
\* totalDispatched and totalDistance.  selChanged: setSelectedEmergency was
\* given a new object.  installed: <<closure>> when the segment installs the
\* poller.
cleanup(selChanged, installed) ==
    pollerSel' =
        IF installed # <<>> THEN installed
        ELSE IF \/ selChanged
                \/ isSimulationRunning' # isSimulationRunning
                \/ totalDispatched' # totalDispatched
                \/ totalDistance' # totalDistance
             THEN <<>>
             ELSE pollerSel

\* handleReset up to its `await fetchData()`: the counters are zeroed and, if
\* the health check and the reset succeed, the first fetchData is issued.
handleReset(succeeds) ==
    /\ UNCHANGED <<apiVars, callerVars, storageVars, restVars, orchestratorVars>>
    /\ ~isSimulationRunning
    /\ Len(dataPolls) + Len(queuePolls) + 2 <= MaxInFlight
    /\ totalDispatched' = 0
    /\ totalDistance' = 0
    /\ dataPolls' = IF succeeds
                    THEN Append(dataPolls, DataPoll(selectedEmergency, "queue"))
                    ELSE dataPolls
    /\ UNCHANGED <<emergencies, resources, selectedEmergency, selectedResource,
                   emergencyStats, isSimulationRunning, queuePolls, dispatching,
                   dispatchCount>>
    /\ cleanup(FALSE, <<>>)

\* A tick of the data poller: fetchData() and fetchEmergenciesQueue() of the
\* render that installed it.
refreshTick ==
    /\ UNCHANGED <<apiVars, callerVars, storageVars, restVars, orchestratorVars>>
    /\ pollerSel # <<>>
    /\ Len(dataPolls) + Len(queuePolls) + 2 <= MaxInFlight
    /\ dataPolls' = Append(dataPolls, DataPoll(<<>>, "none"))
    /\ queuePolls' = Append(queuePolls, QueuePoll(pollerSel[1], "none"))
    /\ UNCHANGED <<emergencies, resources, selectedEmergency, selectedResource,
                   emergencyStats, totalDispatched, totalDistance, isSimulationRunning,
                   pollerSel, dispatching, dispatchCount>>

\* handleFetchNext after fetchNextEmergency has answered.
handleFetchNext ==
    /\ UNCHANGED <<apiVars, callerVars, storageVars, restVars, orchestratorVars>>
    /\ isSimulationRunning
    /\ Len(dataPolls) + Len(queuePolls) + 1 <= MaxInFlight
    /\ queuePolls' = Append(queuePolls, QueuePoll(selectedEmergency, "none"))
    /\ UNCHANGED <<emergencies, resources, selectedEmergency, selectedResource,
                   emergencyStats, totalDispatched, totalDistance, isSimulationRunning,
                   pollerSel, dataPolls, dispatching, dispatchCount>>

\* The response of GET /calls/queue arrives for the i-th call in flight (a
\* failed request is the empty response): the rest of fetchEmergenciesQueue,
\* and of the caller after its `await fetchEmergenciesQueue()`.
queueLands(i, response) ==
    /\ UNCHANGED <<apiVars, callerVars, storageVars, restVars, orchestratorVars>>
    /\ i \in 1..Len(queuePolls)
    /\ LET poll == queuePolls[i]
           sel == poll.selectedEmergency
           emergenciesData == fetchEmergencyCalls(response)
           updatedEmergencies == reconcile(emergencies, emergenciesData)
       IN  /\ emergencies' = updatedEmergencies
           /\ emergencyStats' = calculateEmergencyStats(updatedEmergencies)
           /\ selectedEmergency' = IF sel # <<>> THEN reselect(sel[1], emergenciesData)
                                   ELSE selectedEmergency
           /\ queuePolls' = Remove(queuePolls, i)
           /\ dataPolls' = IF poll.then = "fetchData"
                           THEN Append(dataPolls, DataPoll(<<>>, "none"))
                           ELSE dataPolls
           /\ isSimulationRunning' = IF poll.then = "install" THEN TRUE
                                     ELSE isSimulationRunning
           /\ UNCHANGED <<resources, selectedResource, totalDispatched, totalDistance,
                          dispatching, dispatchCount>>
           /\ cleanup(sel # <<>> /\ selectedEmergency' # selectedEmergency,
                     IF poll.then = "install" THEN <<sel>> ELSE <<>>)

\* The four responses of fetchData arrive for the i-th call in flight (a failed
\* search is the empty list and a failed status read is null).
dataLands(i, resourcesData, statusData) ==
    /\ UNCHANGED <<apiVars, callerVars, storageVars, restVars, orchestratorVars>>
    /\ i \in 1..Len(dataPolls)
    /\ LET poll == dataPolls[i]
       IN  /\ resources' = resourcesData
           /\ isSimulationRunning' = (statusData # <<>> /\ statusData[1].status = "Running")
           /\ totalDispatched' = IF statusData # <<>> THEN statusData[1].totalDispatches
                                 ELSE totalDispatched
           /\ totalDistance' = IF statusData # <<>> THEN statusData[1].distance
                               ELSE totalDistance
           /\ dataPolls' = Remove(dataPolls, i)
           /\ queuePolls' = IF poll.then = "queue"
                            THEN Append(queuePolls, QueuePoll(poll.selectedEmergency, "install"))
                            ELSE queuePolls
           /\ UNCHANGED <<emergencies, selectedEmergency, selectedResource,
                          emergencyStats, dispatching, dispatchCount>>
           /\ cleanup(FALSE, <<>>)

\* handleEmergencySelect, for the i-th emergency of the list shown.
handleEmergencySelect(i) ==
    /\ UNCHANGED <<apiVars, callerVars, storageVars, restVars, orchestratorVars>>
    /\ i \in 1..Len(emergencies)
    /\ selectedEmergency' = <<emergencies[i]>>
    /\ UNCHANGED <<emergencies, resources, selectedResource, emergencyStats,
                   totalDispatched, totalDistance, isSimulationRunning, queuePolls,
                   dataPolls, dispatching, dispatchCount>>
    /\ cleanup(selectedEmergency' # selectedEmergency, <<>>)

\* handleResourceSelect, for the j-th resource of the list shown (by the
\* operator, or by the auto-suggest effect of ResourcePanel).
handleResourceSelect(j) ==
    /\ UNCHANGED <<apiVars, callerVars, storageVars, restVars, orchestratorVars>>
    /\ j \in 1..Len(resources)
    /\ selectedResource' = <<resources[j]>>
    /\ UNCHANGED <<emergencies, resources, selectedEmergency, emergencyStats,
                   totalDispatched, totalDistance, isSimulationRunning, pollerSel,
                   queuePolls, dataPolls, dispatching, dispatchCount>>

\* handleDispatch of ResourcePanel up to its `await dispatchResource(...)`.  The
\* call keeps the props of the render of the click.
handleDispatch(dispatchQuantity) ==
    /\ UNCHANGED <<apiVars, callerVars, storageVars, restVars, orchestratorVars>>
    /\ dispatching = <<>>
    /\ dispatchCount < MaxDispatches
    /\ canDispatch(selectedEmergency, selectedResource, dispatchQuantity)
    /\ dispatching' = << [selectedEmergency |-> selectedEmergency[1],
                          selectedResource |-> selectedResource[1],
                          dispatchQuantity |-> dispatchQuantity,
                          distance |-> calculateDistance(selectedResource[1],
                                                         selectedEmergency[1])] >>
    /\ dispatchCount' = dispatchCount + 1
    /\ UNCHANGED <<emergencies, resources, selectedEmergency, selectedResource,
                   emergencyStats, totalDispatched, totalDistance, isSimulationRunning,
                   pollerSel, queuePolls, dataPolls>>

\* dispatchResource throws: the catch and finally blocks of handleDispatch.
dispatchFails ==
    /\ UNCHANGED <<apiVars, callerVars, storageVars, restVars, orchestratorVars>>
    /\ dispatching # <<>>
    /\ dispatching' = <<>>
    /\ UNCHANGED <<emergencies, resources, selectedEmergency, selectedResource,
                   emergencyStats, totalDispatched, totalDistance, isSimulationRunning,
                   pollerSel, queuePolls, dataPolls, dispatchCount>>

\* The emergencies updater of handleDispatchSuccess.
dispatchTo(prevEmergencies, selEmergency, type, quantity) ==
    [k \in 1..Len(prevEmergencies) |->
        IF sameEmergency(prevEmergencies[k], selEmergency)
        THEN [prevEmergencies[k] EXCEPT
                 !.dispatched = addDispatched(prevEmergencies[k].dispatched, type, quantity)]
        ELSE prevEmergencies[k]]

\* The resources updater of handleDispatchSuccess.
dispatchFrom(prevResources, selResource, quantity) ==
    [k \in 1..Len(prevResources) |->
        IF sameResource(prevResources[k], selResource)
        THEN [prevResources[k] EXCEPT !.quantity = prevResources[k].quantity - quantity]
        ELSE prevResources[k]]

\* History: the calls in flight see the optimistic update of emergency e.
sees(polls, updatedEmergencies, e, type) ==
    LET updated == find(updatedEmergencies, LAMBDA x : sameEmergency(x, e))
    IN  [k \in 1..Len(polls) |->
            IF updated = <<>> THEN polls[k]
            ELSE [polls[k] EXCEPT !.seen =
                    << [city |-> e.city, county |-> e.county, type |-> type,
                        dispatched |-> dispatchedOf(updated[1], type)] >>]]

\* dispatchResource answers: the rest of handleDispatch, which is
\* handleDispatchSuccess up to its `await fetchEmergenciesQueue()`.
dispatchSucceeds ==
    /\ UNCHANGED <<apiVars, callerVars, storageVars, restVars, orchestratorVars>>
    /\ dispatching # <<>>
    /\ LET call == dispatching[1]
           quantity == call.dispatchQuantity
           distance == call.distance * call.dispatchQuantity
           type == call.selectedResource.type
           updatedEmergencies == dispatchTo(emergencies, call.selectedEmergency, type, quantity)
       IN  /\ totalDispatched' = totalDispatched + quantity
           /\ totalDistance' = totalDistance + distance
           /\ resources' = dispatchFrom(resources, call.selectedResource, quantity)
           /\ emergencies' = updatedEmergencies
           /\ emergencyStats' = calculateEmergencyStats(updatedEmergencies)
           /\ selectedEmergency' = <<>>
           /\ selectedResource' = <<>>
           /\ queuePolls' = Append(sees(queuePolls, updatedEmergencies,
                                        call.selectedEmergency, type),
                                   QueuePoll(<<call.selectedEmergency>>, "fetchData"))
           /\ dispatching' = <<>>
           /\ UNCHANGED <<isSimulationRunning, dataPolls, dispatchCount>>
           /\ cleanup(TRUE, <<>>)

\* handleStop after stopControl has answered.
handleStop ==
    /\ UNCHANGED <<apiVars, callerVars, storageVars, restVars, orchestratorVars>>
    /\ isSimulationRunning
    /\ emergencies' = <<>>
    /\ resources' = <<>>
    /\ selectedEmergency' = <<>>
    /\ selectedResource' = <<>>
    /\ totalDispatched' = 0
    /\ totalDistance' = 0
    /\ isSimulationRunning' = FALSE
    /\ UNCHANGED <<emergencyStats, queuePolls, dataPolls, dispatching, dispatchCount>>
    /\ cleanup(TRUE, <<>>)

ReconNext ==
    \/ \E succeeds \in BOOLEAN : handleReset(succeeds)
    \/ refreshTick
    \/ handleFetchNext
    \/ \E i \in 1..MaxInFlight + MaxDispatches, response \in QueueResponses : queueLands(i, response)
    \/ \E i \in 1..MaxInFlight + MaxDispatches, resourcesData \in ResourceResponses,
          statusData \in ControlStatuses : dataLands(i, resourcesData, statusData)
    \/ \E i \in 1..Len(Places) : handleEmergencySelect(i)
    \/ \E j \in 1..Len(Supplies) : handleResourceSelect(j)
    \/ \E dispatchQuantity \in 1..MaxQuantity : handleDispatch(dispatchQuantity)
    \/ dispatchFails
    \/ dispatchSucceeds
    \/ handleStop



(***************************************************************************)
(* Polling orchestrator: the interval timers of components/dashboard.tsx   *)
(*                                                                         *)
(* Each synchronous segment of a handler is one action, and React renders  *)
(* and runs the effects whose dependencies changed at the end of it.  An   *)
(* effect that re-runs first runs its previous cleanup, with the values of *)
(* the render that created it.  After the unmount, setState does nothing   *)
(* and no effect runs, while handlers that wait for a response go on.      *)
(***************************************************************************)

\* Handles per concern, and handlers and ticks waiting at once.
MaxHandles == 2
MaxCalls == 2

Concerns == {"data", "status", "auto", "elapsed"}

\* An interval set by setInterval.  A status poller keeps the
\* stopStatusRefreshInterval and stopRefreshInterval of the render that set
\* it, that is their statusRefreshInterval and refreshInterval.  by is the
\* handler that set the interval.
Timer(concern, id, by, s, r) ==
    [concern |-> concern, id |-> id, by |-> by,
     statusRefreshInterval |-> s, refreshInterval |-> r]

\* A handler or tick waiting for a response, with the state of its closure.
Call(op, pc, r, s, flag) ==
    [op |-> op, pc |-> pc, refreshInterval |-> r, statusRefreshInterval |-> s,
     flag |-> flag, interval |-> 0, n |-> 0]

\* A tick of the auto-fetch poller waiting for the status: its closure holds
\* the interval it belongs to.
AutoTick(id) == [Call("autoTick", "status", 0, 0, FALSE) EXCEPT !.interval = id]

NoHandles == [refreshInterval |-> 0, statusRefreshInterval |-> 0, autoFetchInterval |-> 0]

OrchestratorInit ==
    /\ refreshInterval = 0
    /\ statusRefreshInterval = 0
    /\ autoFetchInterval = 0
    /\ timerRef = 0
    /\ isAutoDispatch = FALSE
    /\ autoFetchEnabled = FALSE
    /\ startTime = 0
    /\ mounted = TRUE
    /\ timers = {}
    /\ mountEffect = NoHandles
    /\ autoEffect = 0
    /\ queued = <<>>
    /\ calls = {}
    /\ stopped = FALSE
    /\ lastRead = "none"

live(concern) == {t \in timers : t.concern = concern}

\* Handles of a concern that some timer, state or closure holds.
held(concern) ==
    {t.id : t \in live(concern)} \cup
    CASE concern = "data" ->
            {refreshInterval, mountEffect.refreshInterval}
                \cup {c.refreshInterval : c \in calls}
                \cup {t.refreshInterval : t \in timers}
      [] concern = "status" ->
            {statusRefreshInterval, mountEffect.statusRefreshInterval}
                \cup {c.statusRefreshInterval : c \in calls}
                \cup {t.statusRefreshInterval : t \in timers}
      [] concern = "auto" ->
            {autoFetchInterval, mountEffect.autoFetchInterval, autoEffect}
                \cup {queued[k] : k \in 1..Len(queued)}
                \cup {c.interval : c \in calls}
      [] OTHER -> {timerRef}

\* setInterval returns a handle nothing holds.
free(concern) == (1..MaxHandles) \ held(concern)
fresh(concern) == CHOOSE n \in free(concern) : \A m \in free(concern) : n <= m

\* Mutant: clearInterval leaves the interval running.
clearInterval_none(ts, concern, id) == ts

\* clearInterval(id) on the intervals ts.
clearInterval(ts, concern, id) == {t \in ts : ~(t.concern = concern /\ t.id = id)}

\* setState while mounted; nothing after the unmount.
setState(old, new) == IF mounted THEN new ELSE old

\* autoFetchInterval after the render that follows a segment: what the
\* segment set (set = <<value>>), else what the auto-fetch effect had asked
\* for, else the value it had.
flush(set) ==
    IF ~mounted THEN autoFetchInterval
    ELSE IF set # <<>> THEN set[1]
    ELSE IF queued # <<>> THEN queued[1]
    ELSE autoFetchInterval

\* The render that follows a segment, and the effects whose dependencies
\* changed in it.  ts: the intervals after the segment.  selChanged: the
\* segment gave selectedEmergency a new value (a dependency of
\* fetchEmergenciesQueue); otherChanged: it gave startTime, totalDispatched
\* or totalDistance one (dependencies of startTimer and saveSimulationState).
\* The mount effect depends on handleReset, hence on all of those, and on the
\* three handles; its cleanup clears the handles of its closure and
\* timerRef.current.  The auto-fetch effect, declared first, clears the
\* interval of its previous run, then sets a new one or clears the one in
\* state, and asks for the render that records it.
commit(ts, selChanged, otherChanged) ==
    LET mountChanged ==
            \/ selChanged \/ otherChanged
            \/ isSimulationRunning' # isSimulationRunning
            \/ isAutoDispatch' # isAutoDispatch
            \/ refreshInterval' # refreshInterval
            \/ statusRefreshInterval' # statusRefreshInterval
            \/ autoFetchInterval' # autoFetchInterval
        autoChanged ==
            \/ selChanged
            \/ autoFetchEnabled' # autoFetchEnabled
            \/ isSimulationRunning' # isSimulationRunning
            \/ isAutoDispatch' # isAutoDispatch
            \/ autoFetchInterval' # autoFetchInterval
        autoCleaned == IF autoChanged THEN clearInterval(ts, "auto", autoEffect) ELSE ts
        mountCleaned ==
            IF mountChanged
            THEN clearInterval(
                   clearInterval(
                     clearInterval(
                       clearInterval(autoCleaned, "data", mountEffect.refreshInterval),
                       "elapsed", timerRef'),
                     "auto", mountEffect.autoFetchInterval),
                   "status", mountEffect.statusRefreshInterval)
            ELSE autoCleaned
        install == autoFetchEnabled' /\ isSimulationRunning' /\ ~isAutoDispatch'
    IN  IF ~mounted
        THEN /\ timers' = ts
             /\ UNCHANGED <<mountEffect, autoEffect, queued>>
        ELSE /\ mountEffect' =
                    IF mountChanged
                    THEN [refreshInterval |-> refreshInterval',
                          statusRefreshInterval |-> statusRefreshInterval',
                          autoFetchInterval |-> autoFetchInterval']
                    ELSE mountEffect
             /\ IF ~autoChanged
                THEN /\ timers' = mountCleaned
                     /\ autoEffect' = autoEffect
                     /\ queued' = <<>>
                ELSE IF install
                THEN /\ free("auto") # {}
                     /\ timers' = clearInterval(mountCleaned, "auto", autoFetchInterval')
                                     \cup {Timer("auto", fresh("auto"), "effect", 0, 0)}
                     /\ autoEffect' = fresh("auto")
                     /\ queued' = <<fresh("auto")>>
                ELSE IF autoFetchInterval' # 0
                THEN /\ timers' = clearInterval(mountCleaned, "auto", autoFetchInterval')
                     /\ autoEffect' = 0
                     /\ queued' = <<0>>
                ELSE /\ timers' = mountCleaned
                     /\ autoEffect' = 0
                     /\ queued' = <<>>

inFlight(op) == {c \in calls : c.op = op}

\* A tick that starts to wait while others of its poller still do: n tells
\* them apart.
numbered(tick) ==
    [tick EXCEPT !.n = CHOOSE k \in 1..MaxCalls :
                          /\ \A c \in inFlight(tick.op) : c.n # k
                          /\ \A j \in 1..(k - 1) : \E c \in inFlight(tick.op) : c.n = j]

\* startTimer: the ticker of timerRef is replaced.
startTimer(ts) ==
    clearInterval(ts, "elapsed", timerRef)
        \cup {Timer("elapsed", fresh("elapsed"), "startTimer", 0, 0)}

\* startRefreshInterval then startStatusRefreshInterval of the render whose
\* handles are r and s, called by handler by.
startPollers(ts, r, s, by) ==
    clearInterval(clearInterval(ts, "data", r), "status", s)
        \cup {Timer("data", fresh("data"), by, 0, 0),
              Timer("status", fresh("status"), by, s, r)}

\* stopStatusRefreshInterval then stopRefreshInterval of the render whose
\* handles are r and s.
stopPollers(ts, r, s) == clearInterval(clearInterval(ts, "status", s), "data", r)

\* The operator starts a simulation: handleReset up to `await
\* getSystemHealth()`.
clickReset ==
    /\ mounted
    /\ ~(isSimulationRunning /\ ~isAutoDispatch)
    /\ Cardinality(calls) < MaxCalls
    /\ calls' = calls \cup {Call("handleReset", "health", refreshInterval,
                                 statusRefreshInterval, isAutoDispatch)}
    /\ stopped' = FALSE
    /\ lastRead' = "none"
    /\ UNCHANGED <<apiVars, callerVars, storageVars, restVars, reconVars, refreshInterval, statusRefreshInterval,
                   autoFetchInterval, timerRef, isAutoDispatch, autoFetchEnabled,
                   startTime, mounted, timers, mountEffect, autoEffect, queued>>

\* handleReset from the answer of the health check to `await resetControl()`:
\* auto dispatch is stopped if it was on, and the counters are zeroed
\* (countersChanged: they were not zero).
resetHealth(c, healthy, countersChanged) ==
    /\ c \in inFlight("handleReset") /\ c.pc = "health"
    /\ calls' = IF healthy THEN (calls \ {c}) \cup {[c EXCEPT !.pc = "reset"]}
                ELSE calls \ {c}
    /\ autoFetchInterval' = flush(<<>>)
    /\ isAutoDispatch' = IF healthy /\ c.flag THEN setState(isAutoDispatch, FALSE)
                         ELSE isAutoDispatch
    /\ lastRead' = "none"
    /\ UNCHANGED <<apiVars, callerVars, storageVars, restVars, reconVars, refreshInterval, statusRefreshInterval,
                   timerRef, autoFetchEnabled, startTime, mounted, stopped>>
    /\ commit(timers, FALSE, healthy /\ countersChanged)

\* handleReset from the answer of resetControl to `await fetchData()`:
\* startTimer and saveSimulationState; the finally block alone if the reset
\* failed.
resetAnswered(c, succeeds) ==
    /\ c \in inFlight("handleReset") /\ c.pc = "reset"
    /\ succeeds => free("elapsed") # {}
    /\ calls' = IF succeeds THEN (calls \ {c}) \cup {[c EXCEPT !.pc = "data"]}
                ELSE calls \ {c}
    /\ autoFetchInterval' = flush(<<>>)
    /\ timerRef' = IF succeeds THEN fresh("elapsed") ELSE timerRef
    /\ startTime' = IF succeeds THEN setState(startTime, 1) ELSE startTime
    /\ lastRead' = "none"
    /\ UNCHANGED <<apiVars, callerVars, storageVars, restVars, reconVars, refreshInterval, statusRefreshInterval,
                   isAutoDispatch, autoFetchEnabled, mounted, stopped>>
    /\ commit(IF succeeds THEN startTimer(timers) ELSE timers, FALSE, succeeds)

\* The fetchData of handleReset returns, with the status the server reports.
resetData(c, running, countersChanged) ==
    /\ c \in inFlight("handleReset") /\ c.pc = "data"
    /\ calls' = (calls \ {c}) \cup {[c EXCEPT !.pc = "queue"]}
    /\ isSimulationRunning' = setState(isSimulationRunning, running)
    /\ autoFetchInterval' = flush(<<>>)
    /\ lastRead' = "none"
    /\ UNCHANGED <<apiVars, callerVars, storageVars, restVars, reconRest, refreshInterval, statusRefreshInterval,
                   timerRef, isAutoDispatch, autoFetchEnabled, startTime, mounted,
                   stopped>>
    /\ commit(timers, FALSE, countersChanged)

\* The fetchEmergenciesQueue of handleReset returns: the rest of handleReset
\* starts the pollers.
resetInstall(c) ==
    /\ c \in inFlight("handleReset") /\ c.pc = "queue"
    /\ free("data") # {} /\ free("status") # {}
    /\ calls' = calls \ {c}
    /\ isSimulationRunning' = setState(isSimulationRunning, TRUE)
    /\ refreshInterval' = setState(refreshInterval, fresh("data"))
    /\ statusRefreshInterval' = setState(statusRefreshInterval, fresh("status"))
    /\ autoFetchInterval' = flush(<<>>)
    /\ lastRead' = "none"
    /\ UNCHANGED <<apiVars, callerVars, storageVars, restVars, reconRest, timerRef, isAutoDispatch, autoFetchEnabled,
                   startTime, mounted, stopped>>
    /\ commit(startPollers(timers, c.refreshInterval, c.statusRefreshInterval,
                           "handleReset"), FALSE, FALSE)

\* The operator stops the simulation (the button is enabled while a manual
\* simulation runs): handleStop up to `await stopControl()`.
clickStop ==
    /\ mounted
    /\ isSimulationRunning /\ ~isAutoDispatch
    /\ inFlight("handleStop") = {} /\ Cardinality(calls) < MaxCalls
    /\ calls' = calls \cup {Call("handleStop", "stop", refreshInterval,
                                 statusRefreshInterval, FALSE)}
    /\ lastRead' = "none"
    /\ UNCHANGED <<apiVars, callerVars, storageVars, restVars, reconVars, refreshInterval, statusRefreshInterval,
                   autoFetchInterval, timerRef, isAutoDispatch, autoFetchEnabled,
                   startTime, mounted, stopped, timers, mountEffect, autoEffect,
                   queued>>

\* handleStop from the answer of stopControl: stopTimer, the two stop
\* functions of its render, and the state is cleared (selChanged,
\* countersChanged: there was a selection, the counters were not zero); the
\* catch block alone if the stop failed.
stopAnswered(c, succeeds, selChanged, countersChanged) ==
    /\ c \in inFlight("handleStop")
    /\ calls' = calls \ {c}
    /\ isSimulationRunning' = IF succeeds THEN setState(isSimulationRunning, FALSE)
                              ELSE isSimulationRunning
    /\ refreshInterval' = IF succeeds /\ c.refreshInterval # 0
                          THEN setState(refreshInterval, 0) ELSE refreshInterval
    /\ statusRefreshInterval' = IF succeeds /\ c.statusRefreshInterval # 0
                                THEN setState(statusRefreshInterval, 0)
                                ELSE statusRefreshInterval
    /\ autoFetchInterval' = flush(<<>>)
    /\ timerRef' = IF succeeds THEN 0 ELSE timerRef
    /\ autoFetchEnabled' = IF succeeds THEN setState(autoFetchEnabled, FALSE)
                           ELSE autoFetchEnabled
    /\ stopped' = (succeeds \/ stopped)
    /\ lastRead' = "none"
    /\ UNCHANGED <<apiVars, callerVars, storageVars, restVars, reconRest, isAutoDispatch, startTime, mounted>>
    /\ commit(IF succeeds
              THEN stopPollers(clearInterval(timers, "elapsed", timerRef),
                               c.refreshInterval, c.statusRefreshInterval)
              ELSE timers,
              succeeds /\ selChanged, succeeds /\ countersChanged)

\* The operator starts auto dispatch (refused while a manual simulation
\* runs): handleAutoDispatchStart up to `await getSystemHealth()`.
clickAutoStart ==
    /\ mounted
    /\ ~(isSimulationRunning /\ ~isAutoDispatch)
    /\ inFlight("handleAutoDispatchStart") = {} /\ Cardinality(calls) < MaxCalls
    /\ calls' = calls \cup {Call("handleAutoDispatchStart", "health", refreshInterval,
                                 statusRefreshInterval, startTime # 0)}
    /\ stopped' = FALSE
    /\ lastRead' = "none"
    /\ UNCHANGED <<apiVars, callerVars, storageVars, restVars, reconVars, refreshInterval, statusRefreshInterval,
                   autoFetchInterval, timerRef, isAutoDispatch, autoFetchEnabled,
                   startTime, mounted, timers, mountEffect, autoEffect, queued>>

\* handleAutoDispatchStart from the answer of the health check to its next
\* await: the ticker is started if its render had no start time, and the
\* pollers are started.
autoStartHealth(c, healthy) ==
    /\ c \in inFlight("handleAutoDispatchStart") /\ c.pc = "health"
    /\ healthy => free("data") # {} /\ free("status") # {} /\ free("elapsed") # {}
    /\ calls' = IF healthy THEN (calls \ {c}) \cup {[c EXCEPT !.pc = "status"]}
                ELSE calls \ {c}
    /\ refreshInterval' = IF healthy THEN setState(refreshInterval, fresh("data"))
                          ELSE refreshInterval
    /\ statusRefreshInterval' = IF healthy THEN setState(statusRefreshInterval, fresh("status"))
                                ELSE statusRefreshInterval
    /\ autoFetchInterval' = flush(<<>>)
    /\ timerRef' = IF healthy /\ ~c.flag THEN fresh("elapsed") ELSE timerRef
    /\ isAutoDispatch' = IF healthy THEN setState(isAutoDispatch, TRUE) ELSE isAutoDispatch
    /\ startTime' = IF healthy /\ ~c.flag THEN setState(startTime, 1) ELSE startTime
    /\ lastRead' = "none"
    /\ UNCHANGED <<apiVars, callerVars, storageVars, restVars, reconVars, autoFetchEnabled, mounted, stopped>>
    /\ commit(IF healthy
              THEN startPollers(IF c.flag THEN timers ELSE startTimer(timers),
                                c.refreshInterval, c.statusRefreshInterval,
                                "handleAutoDispatchStart")
              ELSE timers,
              FALSE, healthy /\ ~c.flag)

\* The end of handleAutoDispatchStart, after its status reads: auto-fetch is
\* disabled.
autoStartDone(c) ==
    /\ c \in inFlight("handleAutoDispatchStart") /\ c.pc = "status"
    /\ calls' = calls \ {c}
    /\ autoFetchInterval' = flush(<<>>)
    /\ autoFetchEnabled' = setState(autoFetchEnabled, FALSE)
    /\ lastRead' = "none"
    /\ UNCHANGED <<apiVars, callerVars, storageVars, restVars, reconVars, refreshInterval, statusRefreshInterval,
                   timerRef, isAutoDispatch, startTime, mounted, stopped>>
    /\ commit(timers, FALSE, FALSE)

\* handleAutoDispatchStop up to its await.
handleAutoDispatchStop ==
    /\ mounted
    /\ isAutoDispatch
    /\ autoFetchInterval' = flush(<<>>)
    /\ isAutoDispatch' = FALSE
    /\ lastRead' = "none"
    /\ UNCHANGED <<apiVars, callerVars, storageVars, restVars, reconVars, refreshInterval, statusRefreshInterval,
                   timerRef, autoFetchEnabled, startTime, mounted, calls, stopped>>
    /\ commit(timers, FALSE, FALSE)

\* The operator toggles auto-fetch.
toggleAutoFetch ==
    /\ mounted
    /\ autoFetchInterval' = flush(<<>>)
    /\ autoFetchEnabled' = ~autoFetchEnabled
    /\ stopped' = FALSE
    /\ lastRead' = "none"
    /\ UNCHANGED <<apiVars, callerVars, storageVars, restVars, reconVars, refreshInterval, statusRefreshInterval,
                   timerRef, isAutoDispatch, startTime, mounted, calls>>
    /\ commit(timers, FALSE, FALSE)

\* The render the auto-fetch effect asked for with setAutoFetchInterval.
effectRender ==
    /\ mounted
    /\ queued # <<>>
    /\ autoFetchInterval' = flush(<<>>)
    /\ lastRead' = "none"
    /\ UNCHANGED <<apiVars, callerVars, storageVars, restVars, reconVars, refreshInterval, statusRefreshInterval,
                   timerRef, isAutoDispatch, autoFetchEnabled, startTime, mounted,
                   calls, stopped>>
    /\ commit(timers, FALSE, FALSE)

\* The status poller t ticks: fetchControlStatus is called, whether or not
\* an earlier tick still waits.
statusFires(t) ==
    /\ t \in live("status")
    /\ Cardinality(calls) < MaxCalls
    /\ calls' = calls \cup {numbered(Call("statusTick", t.by, t.refreshInterval,
                                          t.statusRefreshInterval, FALSE))}
    /\ lastRead' = "none"
    /\ UNCHANGED <<apiVars, callerVars, storageVars, restVars, reconVars, refreshInterval, statusRefreshInterval,
                   autoFetchInterval, timerRef, isAutoDispatch, autoFetchEnabled,
                   startTime, mounted, stopped, timers, mountEffect, autoEffect,
                   queued>>

\* The status read of a tick returns: "Running", another status ("Stopped")
\* or null.  On another status the tick calls the stop functions of the
\* render that set the poller.
statusLands(c, read, countersChanged) ==
    /\ c \in inFlight("statusTick")
    /\ calls' = calls \ {c}
    /\ isSimulationRunning' = IF read = "Stopped" THEN setState(isSimulationRunning, FALSE)
                              ELSE isSimulationRunning
    /\ refreshInterval' = IF read = "Stopped" /\ c.refreshInterval # 0
                          THEN setState(refreshInterval, 0) ELSE refreshInterval
    /\ statusRefreshInterval' = IF read = "Stopped" /\ c.statusRefreshInterval # 0
                                THEN setState(statusRefreshInterval, 0)
                                ELSE statusRefreshInterval
    /\ autoFetchInterval' = flush(<<>>)
    /\ lastRead' = IF c.pc = "handleReset" THEN read ELSE "none"
    /\ UNCHANGED <<apiVars, callerVars, storageVars, restVars, reconRest, timerRef, isAutoDispatch, autoFetchEnabled,
                   startTime, mounted, stopped>>
    /\ commit(IF read = "Stopped"
              THEN stopPollers(timers, c.refreshInterval, c.statusRefreshInterval)
              ELSE timers,
              FALSE, read = "Running" /\ countersChanged)

\* The data poller t ticks: fetchData is called, whether or not an earlier
\* call still waits.
dataFires(t) ==
    /\ t \in live("data")
    /\ Cardinality(calls) < MaxCalls
    /\ calls' = calls \cup {numbered(Call("fetchData", "tick", 0, 0, FALSE))}
    /\ lastRead' = "none"
    /\ UNCHANGED <<apiVars, callerVars, storageVars, restVars, reconVars, refreshInterval, statusRefreshInterval,
                   autoFetchInterval, timerRef, isAutoDispatch, autoFetchEnabled,
                   startTime, mounted, stopped, timers, mountEffect, autoEffect,
                   queued>>

\* The fetchData of a tick returns, with the status the server reports.
fetchDataLands(c, running, countersChanged) ==
    /\ c \in inFlight("fetchData")
    /\ calls' = calls \ {c}
    /\ isSimulationRunning' = setState(isSimulationRunning, running)
    /\ autoFetchInterval' = flush(<<>>)
    /\ lastRead' = "none"
    /\ UNCHANGED <<apiVars, callerVars, storageVars, restVars, reconRest, refreshInterval, statusRefreshInterval,
                   timerRef, isAutoDispatch, autoFetchEnabled, startTime, mounted,
                   stopped>>
    /\ commit(timers, FALSE, countersChanged)

\* The auto-fetch poller t ticks: fetchControlStatus is called, whether or
\* not an earlier tick still waits.
autoFires(t) ==
    /\ t \in live("auto")
    /\ Cardinality(calls) < MaxCalls
    /\ calls' = calls \cup {numbered(AutoTick(t.id))}
    /\ lastRead' = "none"
    /\ UNCHANGED <<apiVars, callerVars, storageVars, restVars, reconVars, refreshInterval, statusRefreshInterval,
                   autoFetchInterval, timerRef, isAutoDispatch, autoFetchEnabled,
                   startTime, mounted, stopped, timers, mountEffect, autoEffect,
                   queued>>

\* The status read of an auto-fetch tick returns "Running", another status
\* or null (a failed read): unless it is Running the tick clears its own
\* interval and disables auto-fetch.
autoLands(c, read) ==
    /\ c \in inFlight("autoTick")
    /\ calls' = calls \ {c}
    /\ autoFetchInterval' = IF read = "Running" THEN flush(<<>>) ELSE flush(<<0>>)
    /\ autoFetchEnabled' = IF read = "Running" THEN autoFetchEnabled
                           ELSE setState(autoFetchEnabled, FALSE)
    /\ lastRead' = "none"
    /\ UNCHANGED <<apiVars, callerVars, storageVars, restVars, reconVars, refreshInterval, statusRefreshInterval,
                   timerRef, isAutoDispatch, startTime, mounted, stopped>>
    /\ commit(IF read = "Running" THEN timers ELSE clearInterval(timers, "auto", c.interval),
              FALSE, FALSE)

\* The selection or the counters change (handleEmergencySelect,
\* handleDispatchSuccess, a queue poll).
stateChanges(selChanged) ==
    /\ mounted
    /\ autoFetchInterval' = flush(<<>>)
    /\ lastRead' = "none"
    /\ UNCHANGED <<apiVars, callerVars, storageVars, restVars, reconVars, refreshInterval, statusRefreshInterval,
                   timerRef, isAutoDispatch, autoFetchEnabled, startTime, mounted,
                   calls, stopped>>
    /\ commit(timers, selChanged, ~selChanged)

\* The Dashboard unmounts: the cleanups of the auto-fetch effect and of the
\* mount effect run, and the state of the component is dropped.  timerRef
\* and the handlers and ticks that wait for a response outlive it.
unmount ==
    /\ mounted
    /\ mounted' = FALSE
    /\ timers' = clearInterval(
                    clearInterval(
                      clearInterval(
                        clearInterval(
                          clearInterval(timers, "auto", autoEffect),
                          "data", mountEffect.refreshInterval),
                        "elapsed", timerRef),
                      "auto", mountEffect.autoFetchInterval),
                    "status", mountEffect.statusRefreshInterval)
    /\ refreshInterval' = 0
    /\ statusRefreshInterval' = 0
    /\ autoFetchInterval' = 0
    /\ isAutoDispatch' = FALSE
    /\ autoFetchEnabled' = FALSE
    /\ startTime' = 0
    /\ isSimulationRunning' = FALSE
    /\ mountEffect' = NoHandles
    /\ autoEffect' = 0
    /\ queued' = <<>>
    /\ stopped' = FALSE
    /\ lastRead' = "none"
    /\ UNCHANGED <<apiVars, callerVars, storageVars, restVars, reconRest, timerRef, calls>>

Handles == 1..MaxHandles
Closures == (0..MaxHandles) \X (0..MaxHandles)

\* Every waiting call and every interval the page can have.
ResetCalls ==
    {Call("handleReset", pc, h[1], h[2], flag) :
        pc \in {"health", "reset", "data", "queue"}, h \in Closures, flag \in BOOLEAN}
StopCalls == {Call("handleStop", "stop", h[1], h[2], FALSE) : h \in Closures}
AutoStartCalls ==
    {Call("handleAutoDispatchStart", pc, h[1], h[2], flag) :
        pc \in {"health", "status"}, h \in Closures, flag \in BOOLEAN}
StatusTicks ==
    {[Call("statusTick", by, h[1], h[2], FALSE) EXCEPT !.n = k] :
        by \in {"handleReset", "handleAutoDispatchStart"}, h \in Closures,
        k \in 1..MaxCalls}
DataTicks == {[Call("fetchData", "tick", 0, 0, FALSE) EXCEPT !.n = k] : k \in 1..MaxCalls}
AutoTicks == {[AutoTick(id) EXCEPT !.n = k] : id \in Handles, k \in 1..MaxCalls}
StatusTimers ==
    {Timer("status", id, by, h[2], h[1]) :
        id \in Handles, by \in {"handleReset", "handleAutoDispatchStart"}, h \in Closures}
DataTimers ==
    {Timer("data", id, by, 0, 0) :
        id \in Handles, by \in {"handleReset", "handleAutoDispatchStart"}}
AutoTimers == {Timer("auto", id, "effect", 0, 0) : id \in Handles}
Reads == {"Running", "Stopped", "null"}

OrchestratorNext ==
    \/ clickReset
    \/ \E c \in ResetCalls, healthy \in BOOLEAN, countersChanged \in BOOLEAN :
            resetHealth(c, healthy, countersChanged)
    \/ \E c \in ResetCalls, succeeds \in BOOLEAN : resetAnswered(c, succeeds)
    \/ \E c \in ResetCalls, running \in BOOLEAN, countersChanged \in BOOLEAN :
            resetData(c, running, countersChanged)
    \/ \E c \in ResetCalls : resetInstall(c)
    \/ clickStop
    \/ \E c \in StopCalls, succeeds \in BOOLEAN, selChanged \in BOOLEAN,
            countersChanged \in BOOLEAN :
            stopAnswered(c, succeeds, selChanged, countersChanged)
    \/ clickAutoStart
    \/ \E c \in AutoStartCalls, healthy \in BOOLEAN : autoStartHealth(c, healthy)
    \/ \E c \in AutoStartCalls : autoStartDone(c)
    \/ handleAutoDispatchStop
    \/ toggleAutoFetch
    \/ effectRender
    \/ \E t \in StatusTimers : statusFires(t)
    \/ \E c \in StatusTicks, read \in Reads, countersChanged \in BOOLEAN :
            statusLands(c, read, countersChanged)
    \/ \E t \in DataTimers : dataFires(t)
    \/ \E c \in DataTicks, running \in BOOLEAN, countersChanged \in BOOLEAN :
            fetchDataLands(c, running, countersChanged)
    \/ \E t \in AutoTimers : autoFires(t)
    \/ \E c \in AutoTicks, read \in Reads : autoLands(c, read)
    \/ \E selChanged \in BOOLEAN : stateChanges(selChanged)
    \/ unmount

(***************************************************************************)
(* Callers of apiRequest: the exported functions of services/api.ts, and   *)
(* handleDispatch of components/resource-panel.tsx                         *)
(***************************************************************************)

\* Functions whose catch block returns a fallback, and functions whose catch
\* block rethrows.
Functions ==
    {"fetchLocations", "fetchAvailableResources", "fetchEmergencyCalls",
     "fetchControlStatus", "fetchNextEmergency", "resetControl", "stopControl",
     "dispatchResource"}

\* response.data: a JSON array, a JSON object, a JSON object with an error
\* field, JSON null, and the {} of a response that is not JSON.
Datas == {"array", "object", "error", "null", "empty"}

\* County and city names of a dispatch (the empty string is falsy), and
\* quantities.
Names == {"", "Arad"}
DispatchQuantities == {-1, 0, 1}

DispatchParams ==
    [sourceCounty : Names, sourceCity : Names, targetCounty : Names,
     targetCity : Names, quantity : DispatchQuantities]

NoParams == <<>>

Returned(value) == [kind |-> "returned", value |-> value]
Thrown(error) == [kind |-> "thrown", error |-> error]

\* Mutant: the quantity is not looked at.
validDispatch_anyQuantity(params) ==
    /\ params.sourceCounty # ""
    /\ params.sourceCity # ""
    /\ params.targetCounty # ""
    /\ params.targetCity # ""

\* The negation of the condition that makes dispatchResource throw before
\* any request.
validDispatch(params) ==
    ~ \/ params.sourceCounty = ""
      \/ params.sourceCity = ""
      \/ params.targetCounty = ""
      \/ params.targetCity = ""
      \/ params.quantity <= 0

\* Mutant: no catch block returns a fallback.
catches_none(fn) == FALSE

\* The catch block of fn returns a fallback instead of rethrowing.
catches(fn) ==
    fn \in {"fetchLocations", "fetchAvailableResources", "fetchEmergencyCalls",
            "fetchControlStatus"}

\* The fallback the catch block of fn returns.
fallback(fn) == IF fn = "fetchControlStatus" THEN "null" ELSE "[]"

\* What the try block of fn does with response.data: the value it returns, or
\* the error it throws (response.data.map of fetchAvailableResources and
\* fetchEmergencyCalls needs an array, call.requests.map of fetchNextEmergency
\* an emergency, dispatchResource a truthy value without an error field).
try(fn, data) ==
    CASE fn \in {"fetchAvailableResources", "fetchEmergencyCalls"} ->
            IF data = "array" THEN Returned(data) ELSE Thrown("TypeError")
      [] fn = "fetchNextEmergency" ->
            IF data = "object" THEN Returned(data) ELSE Thrown("TypeError")
      [] fn = "dispatchResource" ->
            IF data \in {"null", "error"} THEN Thrown("Error") ELSE Returned(data)
      [] OTHER -> Returned(data)

\* fn once its apiRequest has settled with result (a response carrying data,
\* or an ApiError).
settle(fn, result, data) ==
    LET tried == IF result.kind = "response" THEN try(fn, data) ELSE Thrown(result)
    IN  IF tried.kind = "thrown" /\ catches(fn) THEN Returned(fallback(fn)) ELSE tried

CallerInit ==
    /\ caller = <<>>
    /\ callerResult = NoResult
    /\ uiOutcome = "none"
    /\ overdue = FALSE

\* A function other than dispatchResource is called.
invoke(fn) ==
    /\ caller = <<>>
    /\ caller' = <<[fn |-> fn, params |-> NoParams]>>
    /\ UNCHANGED <<callerResult, uiOutcome, overdue, apiVars, storageVars, restVars, reconVars, orchestratorVars>>

\* dispatchResource is called: it throws at once on parameters that are not
\* valid.
dispatchResource(params) ==
    /\ caller = <<>>
    /\ caller' = <<[fn |-> "dispatchResource", params |-> params]>>
    /\ callerResult' = IF validDispatch(params) THEN callerResult ELSE Thrown("Error")
    /\ UNCHANGED <<uiOutcome, overdue, apiVars, storageVars, restVars, reconVars, orchestratorVars>>

\* The function calls apiRequest, with the default retries.
request ==
    /\ caller # <<>>
    /\ callerResult = NoResult
    /\ apiRequest(MAX_RETRIES)

\* The deadline passes on an attempt which no timer aborts.
deadlinePasses ==
    /\ apiPc = "fetching"
    /\ ~timeoutId /\ ~aborted
    /\ ~overdue
    /\ overdue' = TRUE
    /\ UNCHANGED <<caller, callerResult, uiOutcome, apiVars, storageVars, restVars, reconVars, orchestratorVars>>

\* apiRequest has returned or thrown: the rest of the function.
settles(data) ==
    /\ caller # <<>>
    /\ callerResult = NoResult
    /\ apiPc \in {"returned", "thrown"}
    /\ callerResult' = settle(caller[1].fn, apiResult, data)
    /\ UNCHANGED <<caller, uiOutcome, overdue, apiVars, storageVars, restVars, reconVars, orchestratorVars>>

\* handleDispatch after its `await dispatchResource(...)`: onDispatchSuccess,
\* or the catch block and its "Dispatch Failed" toast.
handleDispatchSettles ==
    /\ caller # <<>>
    /\ caller[1].fn = "dispatchResource"
    /\ callerResult # NoResult
    /\ uiOutcome = "none"
    /\ uiOutcome' = IF callerResult.kind = "returned" THEN "onDispatchSuccess"
                    ELSE "Dispatch Failed"
    /\ UNCHANGED <<caller, callerResult, overdue, apiVars, storageVars, restVars, reconVars, orchestratorVars>>

CallerNext ==
    \/ \E fn \in Functions \ {"dispatchResource"} : invoke(fn)
    \/ \E params \in DispatchParams : dispatchResource(params)
    \/ request
    \/ \E status \in Statuses, body \in Bodies : fetchResponds(status, body)
    \/ \E message \in NetworkMessages : fetchFails(message)
    \/ timeoutFires
    \/ fetchOnAbortedSignal
    \/ backoffElapsed
    \/ deadlinePasses
    \/ \E data \in Datas : settles(data)
    \/ handleDispatchSettles

(***************************************************************************)
(* ResourceCache: the localStorage cache of resources and emergencies      *)
(***************************************************************************)

\* Cache expiration time (10 minutes)
CACHE_EXPIRATION == 10 * 60 * 1000

\* The clock advances by ClockStep ms, up to MaxNow.
ClockStep == 300000
MaxNow == 1500000

\* Payloads saved: lists of resources or of emergencies.
Payloads == {"list1", "list2"}

NoGet == [key |-> "none", value |-> <<>>]

CacheInit ==
    /\ now = ClockStep
    /\ cachedResources = <<>>
    /\ cachedEmergencies = <<>>
    /\ cacheTimestamp = <<>>
    /\ written = [resources |-> <<>>, emergencies |-> <<>>]
    /\ got = NoGet

\* cacheAge > CACHE_EXPIRATION
expired(timestamp) == now - timestamp > CACHE_EXPIRATION

\* What getResources and getEmergencies return for the entry cachedData:
\* null (<<>>) without a timestamp, on an expired timestamp and without data.
get(cachedData) ==
    IF cacheTimestamp = <<>> THEN <<>>
    ELSE IF expired(cacheTimestamp[1]) THEN <<>>
    ELSE cachedData

\* Time passes.
tick ==
    /\ now < MaxNow
    /\ now' = now + ClockStep
    /\ got' = NoGet
    /\ UNCHANGED <<cachedResources, cachedEmergencies, cacheTimestamp, written>>
    /\ UNCHANGED <<apiVars, callerVars, snapshotVars, restVars, reconVars, orchestratorVars>>

saveResources(resources_) ==
    /\ cachedResources' = <<resources_>>
    /\ cacheTimestamp' = <<now>>
    /\ written' = [written EXCEPT !.resources = <<now>>]
    /\ got' = NoGet
    /\ UNCHANGED <<now, cachedEmergencies>>
    /\ UNCHANGED <<apiVars, callerVars, snapshotVars, restVars, reconVars, orchestratorVars>>

saveEmergencies(emergencies_) ==
    /\ cachedEmergencies' = <<emergencies_>>
    /\ cacheTimestamp' = <<now>>
    /\ written' = [written EXCEPT !.emergencies = <<now>>]
    /\ got' = NoGet
    /\ UNCHANGED <<now, cachedResources>>
    /\ UNCHANGED <<apiVars, callerVars, snapshotVars, restVars, reconVars, orchestratorVars>>

getResources ==
    /\ got' = [key |-> "resources", value |-> get(cachedResources)]
    /\ UNCHANGED <<now, cachedResources, cachedEmergencies, cacheTimestamp, written>>
    /\ UNCHANGED <<apiVars, callerVars, snapshotVars, restVars, reconVars, orchestratorVars>>

getEmergencies ==
    /\ got' = [key |-> "emergencies", value |-> get(cachedEmergencies)]
    /\ UNCHANGED <<now, cachedResources, cachedEmergencies, cacheTimestamp, written>>
    /\ UNCHANGED <<apiVars, callerVars, snapshotVars, restVars, reconVars, orchestratorVars>>

clearCache ==
    /\ cachedResources' = <<>>
    /\ cachedEmergencies' = <<>>
    /\ cacheTimestamp' = <<>>
    /\ written' = [resources |-> <<>>, emergencies |-> <<>>]
    /\ got' = NoGet
    /\ UNCHANGED now
    /\ UNCHANGED <<apiVars, callerVars, snapshotVars, restVars, reconVars, orchestratorVars>>

\* updateResourceInCache: the list getResources returns, with the resource
\* replaced, is saved if the resource is in it (found).
updateResourceInCache(found, updated) ==
    /\ get(cachedResources) # <<>>
    /\ found
    /\ saveResources(updated)

\* updateEmergencyInCache, likewise.
updateEmergencyInCache(found, updated) ==
    /\ get(cachedEmergencies) # <<>>
    /\ found
    /\ saveEmergencies(updated)

CacheNext ==
    \/ tick
    \/ \E resources_ \in Payloads : saveResources(resources_)
    \/ \E emergencies_ \in Payloads : saveEmergencies(emergencies_)
    \/ getResources
    \/ getEmergencies
    \/ clearCache
    \/ \E found \in BOOLEAN, updated \in Payloads : updateResourceInCache(found, updated)
    \/ \E found \in BOOLEAN, updated \in Payloads : updateEmergencyInCache(found, updated)

(***************************************************************************)
(* Session snapshot and recovery: saveSimulationState, checkForSavedState  *)
(* and the handlers of components/dashboard.tsx that write the snapshot    *)
(***************************************************************************)

\* isRecent: timeDiff < 3600000
RECENT == 3600000

\* Time that passes between two events, and the end of the clock.
Waits == {1800000, 3600000}
MaxClock == 7500000

\* Largest totalDispatched; a dispatch sends one unit over UnitDistance.
MaxDispatched == 2
UnitDistance == 3

\* The values a render gives to the callbacks it creates.
Render(dispatched, distance, start) ==
    [totalDispatched |-> dispatched, totalDistance |-> distance, startTime |-> start]

\* The recovery toast: what its callbacks captured (the parsed snapshot, the
\* stored start time, the handleReset of the render that ran the effect).  At
\* most one prompt is followed: a new one takes the place of an older one.
NoToast ==
    [state |-> "none", lastState |-> <<>>, savedStartTime |-> <<>>,
     handleReset |-> Render(0, 0, 0)]

SnapshotInit ==
    /\ appOpen = FALSE
    /\ simulationState = <<>>
    /\ simulationStartTime = <<>>
    /\ recoveryNotificationShown = FALSE
    /\ toast = NoToast
    /\ pendingReset = <<>>
    /\ effectPending = FALSE

\* How handleReset ends.
Outcomes == {"unhealthy", "resetFails", "started"}

isRecent(lastUpdated) == now - lastUpdated < RECENT

\* The state object saveSimulationState writes, from the values of the render
\* in which it was created.
state(closure) ==
    [totalDispatched |-> closure.totalDispatched,
     totalDistance |-> closure.totalDistance,
     startTime |-> IF closure.startTime # 0 THEN closure.startTime ELSE now,
     isRunning |-> TRUE,
     lastUpdated |-> now]

\* The values of the current render.
render == Render(totalDispatched, totalDistance, startTime)

\* checkForSavedState, run by the effect of the render closure: what it
\* leaves in storage and on screen.
checkForSavedState(closure) ==
    IF simulationState # <<>> /\ ~recoveryNotificationShown
    THEN IF simulationState[1].isRunning /\ isRecent(simulationState[1].lastUpdated)
         THEN [recoveryNotificationShown |-> TRUE,
               simulationState |-> simulationState,
               toast |-> [state |-> "shown", lastState |-> simulationState,
                          savedStartTime |-> simulationStartTime,
                          handleReset |-> closure]]
         ELSE [recoveryNotificationShown |-> FALSE, simulationState |-> <<>>,
               toast |-> NoToast]
    ELSE [recoveryNotificationShown |-> recoveryNotificationShown,
          simulationState |-> simulationState, toast |-> NoToast]


\* Time passes; neither the prompt nor a start sequence lasts that long.
elapse(ms) ==
    /\ now + ms <= MaxClock
    /\ toast.state # "shown"
    /\ pendingReset = <<>>
    /\ ~effectPending
    /\ now' = now + ms
    /\ UNCHANGED <<appOpen, simulationState, simulationStartTime, recoveryNotificationShown, toast, pendingReset,
                   effectPending, totalDispatched, totalDistance, startTime, isSimulationRunning>>
    /\ UNCHANGED <<apiVars, callerVars, cacheEntries, restVars, reconUntouched, orchestratorUntouched>>

\* The application starts: the Dashboard mounts with its initial state and
\* the mount effect runs checkForSavedState.
open ==
    /\ ~appOpen
    /\ appOpen' = TRUE
    /\ LET checked == checkForSavedState(Render(0, 0, 0))
       IN /\ recoveryNotificationShown' = checked.recoveryNotificationShown
          /\ simulationState' = checked.simulationState
          /\ toast' = checked.toast
    /\ UNCHANGED <<now, simulationStartTime, pendingReset, effectPending, totalDispatched, totalDistance,
                   startTime, isSimulationRunning>>
    /\ UNCHANGED <<apiVars, callerVars, cacheEntries, restVars, reconUntouched, orchestratorUntouched>>

\* The page is closed or reloaded: the state of the component and the toast
\* are gone, localStorage stays.
close ==
    /\ appOpen
    /\ appOpen' = FALSE
    /\ toast' = NoToast
    /\ pendingReset' = <<>>
    /\ effectPending' = FALSE
    /\ totalDispatched' = 0
    /\ totalDistance' = 0
    /\ startTime' = 0
    /\ isSimulationRunning' = FALSE
    /\ UNCHANGED <<now, simulationState, simulationStartTime, recoveryNotificationShown>>
    /\ UNCHANGED <<apiVars, callerVars, cacheEntries, restVars, reconUntouched, orchestratorUntouched>>

\* The operator starts a simulation from the control panel: handleReset of
\* the current render, up to its first await.
clickStart ==
    /\ appOpen
    /\ ~effectPending
    /\ ~isSimulationRunning
    /\ pendingReset = <<>>
    /\ pendingReset' = <<render>>
    /\ UNCHANGED <<now, appOpen, simulationState, simulationStartTime, recoveryNotificationShown, toast,
                   effectPending, totalDispatched, totalDistance, startTime, isSimulationRunning>>
    /\ UNCHANGED <<apiVars, callerVars, cacheEntries, restVars, reconUntouched, orchestratorUntouched>>

\* The operator accepts the resume choice: the counters and the start time
\* are set from what the toast captured, and the handleReset the toast
\* captured is called.
resume ==
    /\ appOpen
    /\ ~effectPending
    /\ toast.state = "shown"
    /\ pendingReset = <<>>
    /\ totalDispatched' = toast.lastState[1].totalDispatched
    /\ totalDistance' = toast.lastState[1].totalDistance
    /\ startTime' = IF toast.savedStartTime # <<>> THEN toast.savedStartTime[1]
                    ELSE startTime
    /\ pendingReset' = <<toast.handleReset>>
    /\ toast' = [toast EXCEPT !.state = "accepted"]
    /\ UNCHANGED <<now, appOpen, simulationState, simulationStartTime, recoveryNotificationShown, effectPending,
                   isSimulationRunning>>
    /\ UNCHANGED <<apiVars, callerVars, cacheEntries, restVars, reconUntouched, orchestratorUntouched>>

\* The rest of handleReset: it returns on an unhealthy API, zeroes the
\* counters, and once resetControl has succeeded calls startTimer and
\* saveSimulationState and ends the start sequence.  The new start time and
\* intervals change handleReset, so the mount effect is due again.
handleResetCompletes(outcome) ==
    /\ pendingReset # <<>>
    /\ ~effectPending
    /\ pendingReset' = <<>>
    /\ totalDispatched' = IF outcome = "unhealthy" THEN totalDispatched ELSE 0
    /\ totalDistance' = IF outcome = "unhealthy" THEN totalDistance ELSE 0
    /\ startTime' = IF outcome = "started" THEN now ELSE startTime
    /\ simulationStartTime' =
          IF outcome = "started" THEN <<now>> ELSE simulationStartTime
    /\ simulationState' =
          IF outcome = "started" THEN <<state(pendingReset[1])>> ELSE simulationState
    /\ isSimulationRunning' = (outcome = "started" \/ isSimulationRunning)
    /\ effectPending' = (outcome = "started")
    /\ toast' = IF outcome = "started" /\ toast.state = "accepted"
                THEN [toast EXCEPT !.state = "resumed"] ELSE toast
    /\ UNCHANGED <<now, appOpen, recoveryNotificationShown>>
    /\ UNCHANGED <<apiVars, callerVars, cacheEntries, restVars, reconUntouched, orchestratorUntouched>>

\* The mount effect runs again after the start sequence: checkForSavedState
\* of the new render.
effectRuns ==
    /\ appOpen
    /\ effectPending
    /\ effectPending' = FALSE
    /\ LET checked == checkForSavedState(render)
       IN /\ recoveryNotificationShown' = checked.recoveryNotificationShown
          /\ simulationState' = checked.simulationState
          /\ toast' = IF checked.toast.state = "shown" THEN checked.toast ELSE toast
    /\ UNCHANGED <<now, appOpen, simulationStartTime, pendingReset, totalDispatched, totalDistance,
                   startTime, isSimulationRunning>>
    /\ UNCHANGED <<apiVars, callerVars, cacheEntries, restVars, reconUntouched, orchestratorUntouched>>

\* handleDispatchSuccess: the counters, and the snapshot if there is one.
handleDispatchSuccess ==
    /\ appOpen
    /\ ~effectPending
    /\ isSimulationRunning
    /\ totalDispatched < MaxDispatched
    /\ totalDispatched' = totalDispatched + 1
    /\ totalDistance' = totalDistance + UnitDistance
    /\ simulationState' =
          IF simulationState # <<>> /\ simulationState[1].isRunning
          THEN <<[simulationState[1] EXCEPT !.totalDispatched = totalDispatched + 1,
                                            !.totalDistance = totalDistance + UnitDistance,
                                            !.lastUpdated = now]>>
          ELSE simulationState
    /\ UNCHANGED <<now, appOpen, simulationStartTime, recoveryNotificationShown, toast, pendingReset,
                   effectPending, startTime, isSimulationRunning>>
    /\ UNCHANGED <<apiVars, callerVars, cacheEntries, restVars, reconUntouched, orchestratorUntouched>>

\* The operator declines: onDismiss.
dismiss ==
    /\ appOpen
    /\ ~effectPending
    /\ toast.state = "shown"
    /\ simulationState' = <<>>
    /\ recoveryNotificationShown' = FALSE
    /\ toast' = [toast EXCEPT !.state = "dismissed"]
    /\ UNCHANGED <<now, appOpen, simulationStartTime, pendingReset, effectPending, totalDispatched,
                   totalDistance, startTime, isSimulationRunning>>
    /\ UNCHANGED <<apiVars, callerVars, cacheEntries, restVars, reconUntouched, orchestratorUntouched>>

\* The toast closes by itself after its duration.  The toaster reports it
\* with onAutoClose; onDismiss tells whether it calls onDismiss as well.
expire(onDismiss) ==
    /\ appOpen
    /\ ~effectPending
    /\ toast.state = "shown"
    /\ simulationState' = IF onDismiss THEN <<>> ELSE simulationState
    /\ recoveryNotificationShown' =
          IF onDismiss THEN FALSE ELSE recoveryNotificationShown
    /\ toast' = [toast EXCEPT !.state = "expired"]
    /\ UNCHANGED <<now, appOpen, simulationStartTime, pendingReset, effectPending, totalDispatched,
                   totalDistance, startTime, isSimulationRunning>>
    /\ UNCHANGED <<apiVars, callerVars, cacheEntries, restVars, reconUntouched, orchestratorUntouched>>

\* handleStop after stopControl has answered: stopTimer and
\* clearSimulationState, and the counters are zeroed.
handleStopCompletes ==
    /\ appOpen
    /\ ~effectPending
    /\ isSimulationRunning
    /\ simulationStartTime' = <<>>
    /\ simulationState' = <<>>
    /\ recoveryNotificationShown' = FALSE
    /\ totalDispatched' = 0
    /\ totalDistance' = 0
    /\ isSimulationRunning' = FALSE
    /\ UNCHANGED <<now, appOpen, toast, pendingReset, effectPending, startTime>>
    /\ UNCHANGED <<apiVars, callerVars, cacheEntries, restVars, reconUntouched, orchestratorUntouched>>

\* A tick of the status poller reads a status other than Running: the
\* simulation has ended at the server.  The tick clears the status, the run
\* state and the pollers; isSimulationRunning changes handleReset, so the
\* mount effect is due again.
statusEnds ==
    /\ appOpen
    /\ ~effectPending
    /\ pendingReset = <<>>
    /\ isSimulationRunning
    /\ isSimulationRunning' = FALSE
    /\ effectPending' = TRUE
    /\ UNCHANGED <<now, appOpen, simulationState, simulationStartTime, recoveryNotificationShown,
                   toast, pendingReset, totalDispatched, totalDistance, startTime>>
    /\ UNCHANGED <<apiVars, callerVars, cacheEntries, restVars, reconUntouched, orchestratorUntouched>>

SnapshotNext ==
    \/ \E ms \in Waits : elapse(ms)
    \/ open
    \/ close
    \/ clickStart
    \/ resume
    \/ \E outcome \in Outcomes : handleResetCompletes(outcome)
    \/ effectRuns
    \/ handleDispatchSuccess
    \/ dismiss
    \/ \E onDismiss \in BOOLEAN : expire(onDismiss)
    \/ handleStopCompletes
    \/ statusEnds

(***************************************************************************)
(* Auto-fetch threshold: the interval callback of the auto-fetch effect    *)
(* and handleFetchNext of components/dashboard.tsx, against the count of   *)
(* active calls the server keeps.  The server is not part of the sources:  *)
(* it counts a call as active from the GET /calls/next that hands it out   *)
(* until it is served, and may refuse a /calls/next.                       *)
(***************************************************************************)

\* statusData.maxActiveCalls, the largest count the server reaches, and the
\* auto-fetch ticks that wait at once.
MaxActiveCalls == 2
MaxCount == 3
MaxTicks == 2

\* What fetchControlStatus can return to a tick.
StatusReads ==
    {<<>>} \cup {<<[status |-> st, requestCount |-> k]>> :
                    st \in {"Running", "Stopped"}, k \in 0..MaxCount}

ThresholdInit ==
    /\ requestCount = 0
    /\ autoTicks = {}
    /\ nexts = {}
    /\ issued = <<>>

\* statusData.requestCount < statusData.maxActiveCalls
belowThreshold(statusData) == statusData.requestCount < MaxActiveCalls

\* The tick goes on to fetchNextEmergency.
fetchesNext(statusData) ==
    /\ statusData # <<>>
    /\ statusData[1].status = "Running"
    /\ belowThreshold(statusData[1])

\* The auto-fetch poller ticks: fetchControlStatus is called.
autoTickFires(n) ==
    /\ \A t \in autoTicks : t.n # n
    /\ autoTicks' = autoTicks \cup {[n |-> n, pc |-> "status", statusData |-> <<>>]}
    /\ UNCHANGED <<requestCount, nexts, issued>>
    /\ UNCHANGED <<apiVars, callerVars, storageVars, loggerVars, tickerVars, reconVars,
                   orchestratorVars>>

\* The server answers the status request of a tick with its count of the
\* moment; the answer is on its way.
statusAnswered(t, status) ==
    /\ t \in autoTicks /\ t.pc = "status"
    /\ autoTicks' = (autoTicks \ {t}) \cup
          {[t EXCEPT !.pc = "answered",
                     !.statusData = <<[status |-> status, requestCount |-> requestCount]>>]}
    /\ UNCHANGED <<requestCount, nexts, issued>>
    /\ UNCHANGED <<apiVars, callerVars, storageVars, loggerVars, tickerVars, reconVars,
                   orchestratorVars>>

\* The status read of a tick returns (failed: fetchControlStatus returned
\* null): the tick stops the poller, or calls fetchNextEmergency, or ends.
autoTickLands(t, failed) ==
    /\ t \in autoTicks /\ t.pc = "answered"
    /\ LET statusData == IF failed THEN <<>> ELSE t.statusData
       IN /\ autoTicks' = IF fetchesNext(statusData)
                          THEN (autoTicks \ {t}) \cup {[t EXCEPT !.pc = "next"]}
                          ELSE autoTicks \ {t}
          /\ nexts' = IF fetchesNext(statusData)
                      THEN nexts \cup {[by |-> "autoTick", n |-> t.n]} ELSE nexts
          /\ issued' = <<[statusData |-> statusData, next |-> fetchesNext(statusData),
                          queue |-> fetchesNext(statusData),
                          requestCount |-> requestCount]>>
    /\ UNCHANGED <<requestCount>>
    /\ UNCHANGED <<apiVars, callerVars, storageVars, loggerVars, tickerVars, reconVars,
                   orchestratorVars>>

\* The operator fetches the next emergency: handleFetchNext calls
\* fetchNextEmergency.
clickFetchNext ==
    /\ [by |-> "handleFetchNext", n |-> 0] \notin nexts
    /\ nexts' = nexts \cup {[by |-> "handleFetchNext", n |-> 0]}
    /\ UNCHANGED <<requestCount, autoTicks, issued>>
    /\ UNCHANGED <<apiVars, callerVars, storageVars, loggerVars, tickerVars, reconVars,
                   orchestratorVars>>

\* A GET /calls/next reaches the server, which hands out a call or refuses;
\* a tick goes on to fetchEmergenciesQueue, or to its catch block.
nextAnswered(x, accepted) ==
    /\ x \in nexts
    /\ accepted => requestCount < MaxCount
    /\ nexts' = nexts \ {x}
    /\ requestCount' = IF accepted THEN requestCount + 1 ELSE requestCount
    /\ autoTicks' =
          IF x.by # "autoTick" THEN autoTicks
          ELSE IF accepted
          THEN {IF t.n = x.n THEN [t EXCEPT !.pc = "queue"] ELSE t : t \in autoTicks}
          ELSE {t \in autoTicks : t.n # x.n}
    /\ UNCHANGED <<issued>>
    /\ UNCHANGED <<apiVars, callerVars, storageVars, loggerVars, tickerVars, reconVars,
                   orchestratorVars>>

\* The fetchEmergenciesQueue of a tick returns: the tick is over.
queueAnswered(t) ==
    /\ t \in autoTicks /\ t.pc = "queue"
    /\ autoTicks' = autoTicks \ {t}
    /\ UNCHANGED <<requestCount, nexts, issued>>
    /\ UNCHANGED <<apiVars, callerVars, storageVars, loggerVars, tickerVars, reconVars,
                   orchestratorVars>>

\* An active call is served at the server.
callServed ==
    /\ requestCount > 0
    /\ requestCount' = requestCount - 1
    /\ UNCHANGED <<autoTicks, nexts, issued>>
    /\ UNCHANGED <<apiVars, callerVars, storageVars, loggerVars, tickerVars, reconVars,
                   orchestratorVars>>

\* Every tick and every request the page can have.
TickNumbers == 1..MaxTicks
Ticks ==
    {[n |-> n, pc |-> pc, statusData |-> statusData] :
        n \in TickNumbers, pc \in {"status", "answered", "next", "queue"},
        statusData \in StatusReads}
Nexts ==
    {[by |-> "handleFetchNext", n |-> 0]} \cup {[by |-> "autoTick", n |-> n] : n \in TickNumbers}

ThresholdNext ==
    \/ \E n \in TickNumbers : autoTickFires(n)
    \/ \E t \in Ticks, status \in {"Running", "Stopped"} : statusAnswered(t, status)
    \/ \E t \in Ticks, failed \in BOOLEAN : autoTickLands(t, failed)
    \/ clickFetchNext
    \/ \E x \in Nexts, accepted \in BOOLEAN : nextAnswered(x, accepted)
    \/ \E t \in Ticks : queueAnswered(t)
    \/ callServed

(***************************************************************************)
(* Logger (src/unnamed/part_009): the three lists it keeps in localStorage *)
(* An entry is modelled by its number in the order of the calls.           *)
(***************************************************************************)

\* defaultOptions.maxLocalStorageLogs, and the lengths trackError and
\* trackApiPerformance keep.
maxLocalStorageLogs == 1000
ERRORS_KEPT == 100
PERFORMANCE_KEPT == 100

\* Earlier sessions left each list Headroom entries short of full, and each
\* gets at most MaxOver entries more than it can hold.
Headroom == 3
MaxOver == 2

LogLevels == {"debug", "info", "warn", "error"}

\* LOG_LEVELS
LOG_LEVELS(level) ==
    CASE level = "debug" -> 0
      [] level = "info" -> 1
      [] level = "warn" -> 2
      [] OTHER -> 3

\* options.minLevel of the exported logger in a production build.
minLevel == "info"

\* A browser that has never run the application.
LoggerInit ==
    /\ emercery_logs = <<>>
    /\ emercery_errors = <<>>
    /\ emercery_api_performance = <<>>
    /\ logged = 0
    /\ tracked = 0
    /\ measured = 0

\* What earlier sessions have left.
LoggerStored ==
    /\ emercery_logs = [k \in 1..(maxLocalStorageLogs - Headroom) |-> k]
    /\ emercery_errors = [k \in 1..(ERRORS_KEPT - Headroom) |-> k]
    /\ emercery_api_performance = [k \in 1..(PERFORMANCE_KEPT - Headroom) |-> k]
    /\ logged = maxLocalStorageLogs - Headroom
    /\ tracked = ERRORS_KEPT - Headroom
    /\ measured = PERFORMANCE_KEPT - Headroom

\* Mutant: the newest entries are the ones dropped.
push_keepOldest(list, entry, max) ==
    LET pushed == Append(list, entry)
    IN  IF Len(pushed) > max THEN SubSeq(pushed, 1, max) ELSE pushed

\* list.push(entry), then list.splice(0, list.length - max) if the list is
\* longer than max.
push(list, entry, max) ==
    LET pushed == Append(list, entry)
    IN  IF Len(pushed) > max
        THEN SubSeq(pushed, Len(pushed) - max + 1, Len(pushed))
        ELSE pushed


\* logger.debug, info, warn or error: log(level, ...) with logToLocalStorage,
\* and trackError for an error (errorSampleRate is 1.0).
log(level) ==
    /\ logged < maxLocalStorageLogs + MaxOver
    /\ level = "error" => tracked < ERRORS_KEPT + MaxOver
    /\ LET processed == LOG_LEVELS(level) >= LOG_LEVELS(minLevel)
           error == processed /\ level = "error"
       IN /\ emercery_logs' = IF processed
                              THEN push(emercery_logs, logged + 1, maxLocalStorageLogs)
                              ELSE emercery_logs
          /\ logged' = IF processed THEN logged + 1 ELSE logged
          /\ emercery_errors' = IF error
                                THEN push(emercery_errors, tracked + 1, ERRORS_KEPT)
                                ELSE emercery_errors
          /\ tracked' = IF error THEN tracked + 1 ELSE tracked
    /\ UNCHANGED <<emercery_api_performance, measured>>
    /\ UNCHANGED <<apiVars, callerVars, storageVars, thresholdVars, tickerVars, reconVars,
                   orchestratorVars>>

\* logger.trackApiPerformance
trackApiPerformance ==
    /\ measured < PERFORMANCE_KEPT + MaxOver
    /\ emercery_api_performance' =
          push(emercery_api_performance, measured + 1, PERFORMANCE_KEPT)
    /\ measured' = measured + 1
    /\ UNCHANGED <<emercery_logs, emercery_errors, logged, tracked>>
    /\ UNCHANGED <<apiVars, callerVars, storageVars, thresholdVars, tickerVars, reconVars,
                   orchestratorVars>>

LoggerNext ==
    \/ \E level \in LogLevels : log(level)
    \/ trackApiPerformance

(***************************************************************************)
(* Elapsed-time ticker: startTimer, stopTimer and the cleanup of the mount *)
(* effect of components/dashboard.tsx                                      *)
(***************************************************************************)

\* The instants at which something happens, after the first one.
Instants == {ClockStep + ms : ms \in {1000, 2000, 3661000, 3662000, 7322000, 7323000}}

\* Hours, minutes and seconds of diff milliseconds, as the callback
\* computes them before it pads each with a zero.
HHMMSS(diff) ==
    << diff \div 3600000, (diff % 3600000) \div 60000, (diff % 60000) \div 1000 >>

TickerInit ==
    /\ ticker = <<>>
    /\ elapsedTime = <<0, 0, 0>>
    /\ sessionStart = 0
    /\ cleanupDue = FALSE


\* Time passes until instant t.
passes(t) ==
    /\ t > now
    /\ now' = t
    /\ UNCHANGED <<startTime, ticker, elapsedTime, sessionStart, cleanupDue>>
    /\ UNCHANGED <<apiVars, callerVars, cacheEntries, snapshotVars, thresholdVars, loggerVars,
                   reconVars, orchestratorUntouched>>

\* startTimer, called by handleReset once resetControl has succeeded: the
\* interval of timerRef is replaced by one whose callback holds the startTime
\* of the render that created startTimer, and setStartTime(now) makes the
\* mount effect due.
startTimerCalled ==
    /\ ~cleanupDue
    /\ ticker' = <<[startTime |-> startTime]>>
    /\ startTime' = now
    /\ sessionStart' = now
    /\ cleanupDue' = TRUE
    /\ UNCHANGED <<now, elapsedTime>>
    /\ UNCHANGED <<apiVars, callerVars, cacheEntries, snapshotVars, thresholdVars, loggerVars,
                   reconVars, orchestratorUntouched>>

\* The mount effect runs again after the render with the new start time: its
\* cleanup clears timerRef.current.
mountCleanup ==
    /\ cleanupDue
    /\ cleanupDue' = FALSE
    /\ ticker' = <<>>
    /\ UNCHANGED <<now, startTime, elapsedTime, sessionStart>>
    /\ UNCHANGED <<apiVars, callerVars, cacheEntries, snapshotVars, thresholdVars, loggerVars,
                   reconVars, orchestratorUntouched>>

\* The ticker ticks, a second or more after it was set.
tickerTicks ==
    /\ ticker # <<>>
    /\ now >= sessionStart + 1000
    /\ elapsedTime' = IF ticker[1].startTime # 0
                      THEN HHMMSS(now - ticker[1].startTime)
                      ELSE elapsedTime
    /\ UNCHANGED <<now, startTime, ticker, sessionStart, cleanupDue>>
    /\ UNCHANGED <<apiVars, callerVars, cacheEntries, snapshotVars, thresholdVars, loggerVars,
                   reconVars, orchestratorUntouched>>

\* stopTimer, called by handleStop.
stopTimerCalled ==
    /\ sessionStart # 0
    /\ ticker' = <<>>
    /\ UNCHANGED <<now, startTime, elapsedTime, sessionStart, cleanupDue>>
    /\ UNCHANGED <<apiVars, callerVars, cacheEntries, snapshotVars, thresholdVars, loggerVars,
                   reconVars, orchestratorUntouched>>

TickerNext ==
    \/ \E t \in Instants : passes(t)
    \/ startTimerCalled
    \/ mountCleanup
    \/ tickerTicks
    \/ stopTimerCalled

(***************************************************************************)
(* Specifications                                                          *)
(***************************************************************************)
vars == <<apiVars, callerVars, storageVars, restVars, reconVars, orchestratorVars>>

\* The dashboard as mounted, with the request layer at rest.
\* The dashboard of a simulation that runs, against a server whose supplies
\* change between two polls.
AvailabilityNext ==
    \/ \E succeeds \in BOOLEAN : handleReset(succeeds)
    \/ refreshTick
    \/ \E i \in 1..MaxInFlight + MaxDispatches, response \in WholeQueue : queueLands(i, response)
    \/ \E i \in 1..MaxInFlight + MaxDispatches, resourcesData \in SupplyReports,
          statusData \in RunningStatuses : dataLands(i, resourcesData, statusData)
    \/ \E i \in 1..Len(Places) : handleEmergencySelect(i)
    \/ \E j \in 1..Len(Supplies) : handleResourceSelect(j)
    \/ \E dispatchQuantity \in 1..MaxQuantity : handleDispatch(dispatchQuantity)
    \/ dispatchSucceeds

InitAvailability ==
    ApiInit /\ CallerInit /\ CacheInit /\ SnapshotInit /\ ThresholdInit /\ LoggerInit
        /\ TickerInit /\ abortKind = "AbortError" /\ ReconInit /\ OrchestratorInit

SpecAvailability == InitAvailability /\ [][AvailabilityNext]_vars

InitRecon == ApiInit /\ CallerInit /\ CacheInit /\ SnapshotInit /\ ThresholdInit /\ LoggerInit /\ TickerInit /\ abortKind = "AbortError" /\ ReconInit /\ OrchestratorInit

SpecRecon == InitRecon /\ [][ReconNext]_vars

\* One call of apiRequest, with the dashboard as mounted.
InitTimers == ApiInit /\ CallerInit /\ CacheInit /\ SnapshotInit /\ ThresholdInit /\ LoggerInit /\ TickerInit /\ abortKind = "AbortError" /\ ReconInit /\ OrchestratorInit

\* The polling orchestrator alone.
SpecTimers == InitTimers /\ [][OrchestratorNext]_vars

InitCallers == ApiInit /\ CallerInit /\ CacheInit /\ SnapshotInit /\ ThresholdInit /\ LoggerInit /\ TickerInit /\ ReconInit /\ OrchestratorInit

\* The functions of services/api.ts over apiRequest.
SpecCallers == InitCallers /\ [][CallerNext]_vars

InitCache == ApiInit /\ abortKind = "AbortError" /\ CallerInit /\ CacheInit /\ SnapshotInit /\ ThresholdInit /\ LoggerInit /\ TickerInit /\ ReconInit /\ OrchestratorInit

\* ResourceCache alone.
SpecCache == InitCache /\ [][CacheNext]_vars

InitSnapshot ==
    ApiInit /\ abortKind = "AbortError" /\ CallerInit /\ CacheInit /\ SnapshotInit
        /\ ThresholdInit /\ LoggerInit /\ TickerInit
        /\ ReconInit /\ OrchestratorInit

\* The session snapshot and its recovery.
SpecSnapshot == InitSnapshot /\ [][SnapshotNext]_vars

InitThreshold ==
    ApiInit /\ abortKind = "AbortError" /\ CallerInit /\ CacheInit /\ SnapshotInit
        /\ ThresholdInit /\ LoggerInit /\ TickerInit /\ ReconInit /\ OrchestratorInit

\* The auto-fetch poller and the server's count.
SpecThreshold == InitThreshold /\ [][ThresholdNext]_vars

InitLogger ==
    ApiInit /\ abortKind = "AbortError" /\ CallerInit /\ CacheInit /\ SnapshotInit
        /\ ThresholdInit /\ LoggerStored /\ TickerInit /\ ReconInit /\ OrchestratorInit

\* Logger.
SpecLogger == InitLogger /\ [][LoggerNext]_vars

InitTicker ==
    ApiInit /\ abortKind = "AbortError" /\ CallerInit /\ CacheInit /\ SnapshotInit
        /\ ThresholdInit /\ LoggerInit /\ TickerInit /\ ReconInit /\ OrchestratorInit

\* The elapsed-time ticker.
SpecTicker == InitTicker /\ [][TickerNext]_vars

InitApi == ApiInit /\ CallerInit /\ CacheInit /\ SnapshotInit /\ ThresholdInit /\ LoggerInit /\ TickerInit /\ ReconInit /\ OrchestratorInit

SpecApi == InitApi /\ [][ApiNext]_vars

(***************************************************************************)
(* Properties of the request engine                                        *)
(***************************************************************************)
Last(seq) == seq[Len(seq)]

StatusesOf(os) == [i \in 1..Len(os) |-> os[i].status]

Is4xx(o) == o.kind = "response" /\ o.status >= 400 /\ o.status <= 499
Is5xx(o) == o.kind = "response" /\ o.status >= 500 /\ o.status <= 599

\* C8: a 4xx answer to the first attempt ends the call at once: one attempt in
\* all, no backoff delay waited, an ApiError thrown (whatever the body was).
C8_NoRetryOn4xx ==
    (outcomes # <<>> /\ Is4xx(outcomes[1])) =>
        /\ apiPc = "thrown"
        /\ Len(outcomes) = 1
        /\ delays = <<>>
        /\ apiResult.kind = "ApiError"

\* C9: a failed attempt is followed by another attempt exactly when attempts
\* remain and the failure was a timeout, a transport failure or a 5xx response.
C9_RetryClassification ==
    (apiPc \in {"backoff", "thrown"}) =>
        ((apiPc = "backoff") <=>
            /\ attempt < retries
            /\ \/ Last(outcomes).kind \in {"timeout", "network"}
               \/ Is5xx(Last(outcomes)))

C11_AttemptCeiling ==
    /\ attempt <= retries
    /\ Len(outcomes) <= retries
    /\ (apiPc = "idle") => (retries = MAX_RETRIES /\ outcomes = <<>>)
    /\ (apiPc = "backoff") => attempt < retries
    /\ (apiPc # "idle") => Len(delays) < retries
    /\ (Len(outcomes) = retries) => apiPc \in {"returned", "thrown"}
    /\ (apiPc = "returned") => apiResult.kind = "response"
    /\ (apiPc = "thrown") => apiResult.kind = "ApiError"

C11_Witness ==
    /\ retries = MAX_RETRIES
    /\ Len(outcomes) = MAX_RETRIES
    /\ Len(delays) = MAX_RETRIES - 1
    /\ apiPc = "thrown"

C13_Deadline ==
    (apiPc = "fetching") => (timeoutId /\ ~aborted)

(***************************************************************************)
(* Properties of the reconciler                                            *)
(***************************************************************************)

\* The step is the landing of a queue poll: only queueLands shortens queuePolls.
queueLanded == Len(queuePolls') < Len(queuePolls)

\* The step is handleDispatchSuccess: the dispatch in flight ends and a
\* fetchEmergenciesQueue call is issued.
dispatchSucceeded ==
    /\ dispatching # <<>> /\ dispatching' = <<>>
    /\ Len(queuePolls') > Len(queuePolls)

requestedOf(emergency, type) ==
    Sum([i \in 1..Len(emergency.requests) |->
            IF emergency.requests[i].Type = type
            THEN emergency.requests[i].Quantity ELSE 0])

Clamped(x) == IF x < 0 THEN 0 ELSE x

\* C1 (carry-forward): when a queue poll lands, every emergency that was in
\* the list with a non-empty dispatched map D and is in the poll result (hence
\* in the list after the landing, which holds exactly the emergencies of the
\* result) has dispatched map D in the list after the landing.
C1_CarryForward ==
    [][ queueLanded =>
          \A k \in 1..Len(emergencies), m \in 1..Len(emergencies') :
              ( /\ emergencies'[m].city = emergencies[k].city
                /\ emergencies'[m].county = emergencies[k].county
                /\ DOMAIN emergencies[k].dispatched # {} )
              => emergencies'[m].dispatched = emergencies[k].dispatched ]_vars

\* A dispatch was recorded and every queue poll issued up to it, the one of
\* handleDispatchSuccess included, has landed with the emergency still in the
\* list carrying its count.
C1_Witness ==
    /\ dispatchCount > 0 /\ dispatching = <<>> /\ queuePolls = <<>>
    /\ \E k \in 1..Len(emergencies) : dispatchedOf(emergencies[k], "Medical") > 0

\* C2 (an older poll does not erase an optimistic dispatch): when a queue poll
\* lands that was in flight when a dispatch succeeded, and the emergency of the
\* dispatch is in the list after the landing, its dispatched count of the
\* dispatched type is not lower than right after the optimistic update.
C2_OlderPollKeepsDispatch ==
    [][ \A i \in 1..Len(queuePolls) :
          ( queuePolls' = Remove(queuePolls, i) /\ queuePolls[i].seen # <<>> ) =>
              LET update == queuePolls[i].seen[1]
              IN  \A m \in 1..Len(emergencies') :
                      ( /\ emergencies'[m].city = update.city
                        /\ emergencies'[m].county = update.county )
                      => dispatchedOf(emergencies'[m], update.type) >= update.dispatched ]_vars

\* C3 (optimistic update): on a successful dispatch of q units of type t from
\* resource R to emergency E, the list records of E gain q in dispatched[t],
\* the list records of R lose q in quantity, total-dispatched gains q and
\* total-distance the distance reported, and nothing else changes in the
\* emergency and resource lists.
C3_DispatchSuccess ==
    [][ dispatchSucceeded =>
          LET call == dispatching[1]
              E == call.selectedEmergency
              R == call.selectedResource
              q == call.dispatchQuantity
              t == R.type
          IN  /\ Len(emergencies') = Len(emergencies)
              /\ \A k \in 1..Len(emergencies) :
                    IF emergencies[k].city = E.city /\ emergencies[k].county = E.county
                    THEN /\ emergencies'[k].dispatched[t]
                              = dispatchedOf(emergencies[k], t) + q
                         /\ \A u \in DOMAIN emergencies[k].dispatched \ {t} :
                              emergencies'[k].dispatched[u] = emergencies[k].dispatched[u]
                         /\ emergencies'[k].requests = emergencies[k].requests
                         /\ emergencies'[k].city = emergencies[k].city
                         /\ emergencies'[k].county = emergencies[k].county
                    ELSE emergencies'[k] = emergencies[k]
              /\ Len(resources') = Len(resources)
              /\ \A k \in 1..Len(resources) :
                    IF /\ resources[k].city = R.city /\ resources[k].county = R.county
                       /\ resources[k].type = R.type
                    THEN resources'[k] =
                            [resources[k] EXCEPT !.quantity = resources[k].quantity - q]
                    ELSE resources'[k] = resources[k]
              /\ totalDispatched' = totalDispatched + q
              /\ totalDistance' = totalDistance + call.distance * q ]_vars

\* handleDispatchSuccess has just run for one unit sent to the first emergency
\* (need 2) from a resource holding 3, next to the other emergency and the
\* other resource: dispatched 1, remaining 1, resource 2.
C3_Witness ==
    /\ queuePolls # <<>> /\ queuePolls[Len(queuePolls)].then = "fetchData"
    /\ Len(emergencies) = 2 /\ Len(resources) = 2
    /\ totalDispatched = 1
    /\ \E k \in 1..2 :
          /\ sameEmergency(emergencies[k], queuePolls[Len(queuePolls)].selectedEmergency[1])
          /\ requestedOf(emergencies[k], "Medical") = 2
          /\ emergencies[k].dispatched["Medical"] = 1
          /\ getRemainingNeededByType(emergencies[k], "Medical") = 1
    /\ \E k \in 1..2 : resources[k].quantity = 2

\* Emergencies the dashboard holds: the list and the selection.
heldEmergencies ==
    {emergencies[k] : k \in 1..Len(emergencies)}
        \cup {selectedEmergency[k] : k \in 1..Len(selectedEmergency)}

\* C4 (clamping): for every emergency held and every type, remaining-needed is
\* requested - dispatched or, when that is negative, 0; the pending total of
\* each type is never negative and, for the list shown, is the sum over the
\* requests of that type of the same clamped difference.
C4_Clamping ==
    /\ \A e \in heldEmergencies, t \in Types :
          /\ getRemainingNeededByType(e, t) >= 0
          /\ getRemainingNeededByType(e, t) = Clamped(requestedOf(e, t) - dispatchedOf(e, t))
    /\ \A t \in Types :
          /\ emergencyStats.pendingRequests[t] >= 0
          /\ emergencies # <<>> =>
                emergencyStats.pendingRequests[t] =
                    Sum([k \in 1..Len(emergencies) |->
                           Sum([i \in 1..Len(emergencies[k].requests) |->
                                  IF emergencies[k].requests[i].Type = t
                                  THEN Clamped(emergencies[k].requests[i].Quantity
                                                 - dispatchedOf(emergencies[k], t))
                                  ELSE 0])])

\* More was dispatched to an emergency of the list than it requested.
C4_Witness ==
    \E k \in 1..Len(emergencies), t \in Types :
        /\ dispatchedOf(emergencies[k], t) > requestedOf(emergencies[k], t)
        /\ getRemainingNeededByType(emergencies[k], t) = 0
        /\ emergencyStats.pendingRequests[t] = 0


\* C25: whenever a queue poll result lands that does not contain the
\* selected emergency's (city, county), the selection is cleared: after the
\* poll has been processed no emergency absent from the held list is
\* selected.
C25_SelectionClearing ==
    [][(queueLanded /\ selectedEmergency' # <<>>) =>
          \E k \in 1..Len(emergencies') :
              sameEmergency(emergencies'[k], selectedEmergency'[1])]_vars

(***************************************************************************)
(* Properties of the polling orchestrator                                  *)
(***************************************************************************)

\* C5: at any moment at most one data poller, at most one status poller and
\* at most one elapsed-time ticker are live.
C5_OneTimerPerConcern ==
    \A concern \in {"data", "status", "elapsed"} : Cardinality(live(concern)) <= 1

\* C6: when a tick of the status poller of a simulation started by
\* handleReset reads a status other than "Running", no status poller and no
\* data poller of that start is live at the end of the tick.
C6_NotRunningCancelsPollers ==
    lastRead = "Stopped" =>
        \A t \in live("status") \cup live("data") : t.by # "handleReset"

\* C7: once handleStop has completed, and once the Dashboard is unmounted,
\* no interval of the page is live, so none of them ticks.
C7_NoTicksAfterStopOrUnmount ==
    (stopped \/ ~mounted) => timers = {}

\* C23: an auto-fetch timer is live only while auto-fetch is enabled, the
\* simulation is running and auto-dispatch is off; and a tick that observes
\* a status other than Running cancels the timer, so that no later tick
\* issues /calls/next.
C23_AutoFetchLifecycle ==
    /\ [](live("auto") # {} => autoFetchEnabled /\ isSimulationRunning /\ ~isAutoDispatch)
    /\ [][(\E c \in AutoTicks : autoLands(c, "Stopped")) => live("auto")' = {}]_vars

\* An auto-fetch timer is live, auto-fetch being enabled, and one of its
\* ticks waits for the status.
C23_Witness ==
    /\ live("auto") # {}
    /\ autoFetchEnabled
    /\ inFlight("autoTick") # {}

\* C24: for each poller (data, status, auto-fetch) at most one tick's network
\* request is in flight at any time.
C24_NoOverlappingTicks ==
    \A op \in {"fetchData", "statusTick", "autoTick"} : Cardinality(inFlight(op)) <= 1

(***************************************************************************)
(* Properties of the callers of apiRequest                                 *)
(***************************************************************************)
\* The function called, or "none".
called == IF caller = <<>> THEN "none" ELSE caller[1].fn

\* An attempt of the request has outlived the deadline: the timer aborted it,
\* or the deadline passed with no timer armed.
timedOut == overdue \/ \E k \in 1..Len(outcomes) : outcomes[k].kind = "timeout"

\* C14: a dispatch request of which an attempt did not return within the
\* deadline is not marked as succeeded: dispatchResource does not return a
\* value and handleDispatch does not invoke onDispatchSuccess.
C14_DispatchTimeout ==
    (called = "dispatchResource" /\ timedOut) =>
        /\ callerResult.kind # "returned"
        /\ uiOutcome # "onDispatchSuccess"

\* C15: dispatchResource called with an empty sourceCounty, sourceCity,
\* targetCounty or targetCity, or with a quantity <= 0, throws and makes no
\* request: no attempt, no backoff, no performance sample.
C15_ValidationBeforeNetwork ==
    (/\ called = "dispatchResource"
     /\ \/ \E f \in {"sourceCounty", "sourceCity", "targetCounty", "targetCity"} :
              caller[1].params[f] = ""
        \/ caller[1].params.quantity <= 0) =>
        /\ callerResult.kind = "thrown"
        /\ apiPc = "idle"
        /\ attempt = 0
        /\ outcomes = <<>>
        /\ delays = <<>>
        /\ perfSamples = 0

C15_Witness ==
    /\ called = "dispatchResource"
    /\ caller[1].params =
           [sourceCounty |-> "Arad", sourceCity |-> "Arad", targetCounty |-> "Arad",
            targetCity |-> "Arad", quantity |-> 0]
    /\ callerResult.kind = "thrown"
    /\ uiOutcome = "Dispatch Failed"

C17_TtlPerEntry ==
    \A key \in {"resources", "emergencies"} :
        (/\ got.key = key
         /\ written[key] # <<>>
         /\ now - written[key][1] > 10 * 60 * 1000) => got.value = <<>>


(***************************************************************************)
(* Properties of the session snapshot and its recovery                     *)
(***************************************************************************)

\* The application starts with a snapshot in storage.
startsWithSnapshot == ~appOpen /\ appOpen' /\ simulationState # <<>>

\* C18: on application start a persisted snapshot is offered for resume only
\* if now - lastUpdated < 1 hour; a snapshot that is 1 hour old or older is
\* never offered and is removed from storage, and a younger one that is not
\* yet flagged as offered is offered.
C18_RecoveryFreshness ==
    [][startsWithSnapshot =>
         IF now - simulationState[1].lastUpdated < 3600000
         THEN ~recoveryNotificationShown => toast'.state = "shown"
         ELSE toast'.state # "shown" /\ simulationState' = <<>>]_vars

\* C19: after the operator has accepted the resume choice and the start
\* sequence it triggers has completed, the local counters and the start time
\* equal the values of the snapshot that was offered, and the persisted
\* snapshot still carries those cumulative values.
C19_ResumeReseeding ==
    [][(toast.state = "accepted" /\ toast'.state = "resumed") =>
         /\ totalDispatched' = toast.lastState[1].totalDispatched
         /\ totalDistance' = toast.lastState[1].totalDistance
         /\ startTime' = toast.lastState[1].startTime
         /\ simulationState' # <<>>
         /\ simulationState'[1].totalDispatched = toast.lastState[1].totalDispatched
         /\ simulationState'[1].totalDistance = toast.lastState[1].totalDistance]_vars

\* C20: declining the resume prompt, or letting it expire without a choice,
\* removes the persisted snapshot, so that it is not present on the next
\* application start.
C20_DeclineDiscards ==
    [][(toast.state = "shown" /\ toast'.state \in {"dismissed", "expired"}) =>
         simulationState' = <<>>]_vars


\* C21: while a simulation started from the dashboard is running, after
\* every successful dispatch the persisted snapshot carries the local
\* cumulative counters including that dispatch and a refreshed lastUpdated;
\* after a successful stop no snapshot is persisted.
C21_SnapshotCurrency ==
    [][/\ handleDispatchSuccess =>
            /\ simulationState' # <<>>
            /\ simulationState'[1].totalDispatched = totalDispatched'
            /\ simulationState'[1].totalDistance = totalDistance'
            /\ simulationState'[1].lastUpdated = now
       /\ handleStopCompletes => simulationState' = <<>>]_vars



(***************************************************************************)
(* Properties of the auto-fetch threshold                                  *)
(***************************************************************************)

\* C22: at the moment an auto-fetch tick issues GET /calls/next the count of
\* active calls is below maxActiveCalls, under every interleaving of ticks
\* and manual fetch-next actions; and a tick that reads requestCount >=
\* maxActiveCalls issues neither /calls/next nor a queue refresh.
C22_AutoFetchThreshold ==
    issued # <<>> =>
        /\ issued[1].next => issued[1].requestCount < MaxActiveCalls
        /\ (/\ issued[1].statusData # <<>>
            /\ issued[1].statusData[1].requestCount >= MaxActiveCalls)
               => ~issued[1].next /\ ~issued[1].queue

(***************************************************************************)
(* Properties of Logger                                                    *)
(***************************************************************************)

\* The last entries given to a list, in the order they were given, as many
\* as the list can hold.
lastGiven(given, max) ==
    [j \in 1..(IF given < max THEN given ELSE max) |->
        (IF given < max THEN 0 ELSE given - max) + j]

\* C30: the log list holds at most maxLocalStorageLogs (1000) entries, the
\* error list at most 100 and the API-performance list at most 100; a full
\* list loses its oldest entries first, so that each list holds the most
\* recent entries in the order they were given.
C30_BoundedRingBuffers ==
    /\ Len(emercery_logs) <= 1000
    /\ Len(emercery_errors) <= 100
    /\ Len(emercery_api_performance) <= 100
    /\ emercery_logs = lastGiven(logged, 1000)
    /\ emercery_errors = lastGiven(tracked, 100)
    /\ emercery_api_performance = lastGiven(measured, 100)

\* Each list has been given more entries than it holds.
C30_Witness ==
    /\ logged > 1000 /\ Len(emercery_logs) = 1000
    /\ tracked > 100 /\ Len(emercery_errors) = 100
    /\ measured > 100 /\ Len(emercery_api_performance) = 100

\* C27: once a manual simulation has been started, the data poller and the
\* status poller stay live through every operator action other than stop:
\* a selection, a dispatch, a toggle of auto-fetch and the renders they
\* cause leave both pollers live.
C27_PollerLiveness ==
    [][(/\ \/ \E selChanged \in BOOLEAN : stateChanges(selChanged)
           \/ toggleAutoFetch
           \/ effectRender
        /\ isSimulationRunning /\ ~isAutoDispatch
        /\ live("data") # {} /\ live("status") # {})
          => live("data")' # {} /\ live("status")' # {}]_vars

\* C28: when the response of a request that a poller tick issued lands after
\* handleStop has completed, and no start has been asked for since, the
\* cleared state is not repopulated: isSimulationRunning stays false.
C28_LateResponsesAfterStop ==
    [][(/\ \/ \E c \in DataTicks, running, countersChanged \in BOOLEAN :
                  fetchDataLands(c, running, countersChanged)
           \/ \E c \in StatusTicks, read \in {"Running", "Stopped", "null"},
                  countersChanged \in BOOLEAN : statusLands(c, read, countersChanged)
        /\ stopped /\ ~isSimulationRunning
        /\ inFlight("handleReset") = {} /\ inFlight("handleAutoDispatchStart") = {})
          => ~isSimulationRunning']_vars

\* C29: a get of a stored payload returns it exactly when the age of the
\* cache, now minus its timestamp, is below the TTL of 600000 ms; at an age
\* equal to the TTL and beyond, it returns a miss.
C29_ExpiryBoundary ==
    /\ (got.key = "resources" /\ cacheTimestamp # <<>> /\ cachedResources # <<>>)
          => (got.value = cachedResources <=> now - cacheTimestamp[1] < 600000)
    /\ (got.key = "emergencies" /\ cacheTimestamp # <<>> /\ cachedEmergencies # <<>>)
          => (got.value = cachedEmergencies <=> now - cacheTimestamp[1] < 600000)

\* C31: auto dispatch and a manual simulation are never both active: auto
\* dispatch is not started while a manual simulation runs, and a handleReset
\* that goes on to resetControl while auto dispatch is active stops auto
\* dispatch first.
C31_ModeExclusion ==
    [][/\ clickAutoStart => ~(isSimulationRunning /\ ~isAutoDispatch)
       /\ ((\E c \in ResetCalls, countersChanged \in BOOLEAN :
                resetHealth(c, TRUE, countersChanged)) /\ isAutoDispatch)
             => ~isAutoDispatch']_vars

\* C32: when a queue poll fails, the held emergency list, with its
\* dispatched counts, and the selection are left unchanged.
C32_FailedPollNoOp ==
    [][(\E i \in 1..MaxInFlight + MaxDispatches : queueLands(i, FailedResponse))
          => UNCHANGED <<emergencies, selectedEmergency>>]_vars

\* C33: whenever an emergency is selected and an emergency with the same
\* (city, county) is in the held list, the dispatched map of the selection
\* equals the dispatched map of that record.
C33_SelectionConsistency ==
    selectedEmergency # <<>> =>
        \A k \in 1..Len(emergencies) :
            sameEmergency(emergencies[k], selectedEmergency[1])
                => emergencies[k].dispatched = selectedEmergency[1].dispatched

\* C34: the available quantity of every held resource is never negative,
\* also right after the optimistic decrement of a dispatch that follows a
\* resource poll with a lower quantity than the selected resource had.
C34_NonNegativeAvailability ==
    \A k \in 1..Len(resources) : resources[k].quantity >= 0

\* C35: the snapshot is examined once per page load, when the application
\* starts: a run of the mount effect after a start in the same page load
\* offers no resume prompt for the snapshot that start wrote and does not
\* discard it.
C35_PromptOnlyAtStart ==
    [][effectRuns => UNCHANGED <<toast, simulationState, recoveryNotificationShown>>]_vars

\* C36: once auto-fetch is enabled in a running manual simulation one
\* auto-fetch timer is installed and stays: the render that records its
\* handle, in which neither the enabled flag nor the run state nor the mode
\* changes, installs and cancels no auto-fetch timer.
C36_AutoFetchSettles ==
    [][(effectRender /\ autoFetchEnabled /\ isSimulationRunning /\ ~isAutoDispatch)
          => live("auto")' = live("auto")]_vars

\* C37: a failed status read (null) in a tick of the status poller or of the
\* auto-fetch poller stops no poller and does not disable auto-fetch: the
\* run state and the handles of the pollers stay, and so does the enabled
\* flag.
C37_TransientStatusFailure ==
    [][/\ (mounted /\ \E c \in StatusTicks, countersChanged \in BOOLEAN :
                         statusLands(c, "null", countersChanged))
             => UNCHANGED <<isSimulationRunning, refreshInterval, statusRefreshInterval>>
       /\ (mounted /\ \E c \in AutoTicks : autoLands(c, "null"))
             => autoFetchEnabled' = autoFetchEnabled]_vars

\* C38: a dispatch is made only with a resource and an emergency selected,
\* a quantity above 0 and at most the quantity of the selected resource, the
\* emergency requesting the type of the resource and remaining-needed of
\* that type above 0; and dispatched[type] of a held emergency never exceeds
\* the quantity it requests of that type.
C38_DispatchGuard ==
    /\ [][\A dispatchQuantity \in 1..MaxQuantity :
            handleDispatch(dispatchQuantity) =>
                /\ selectedResource # <<>> /\ selectedEmergency # <<>>
                /\ 0 < dispatchQuantity
                /\ dispatchQuantity <= selectedResource[1].quantity
                /\ requestedOf(selectedEmergency[1], selectedResource[1].type) > 0
                /\ getRemainingNeededByType(selectedEmergency[1],
                                            selectedResource[1].type) > 0]_vars
    /\ [](\A k \in 1..Len(emergencies), t \in Types :
             dispatchedOf(emergencies[k], t) <= requestedOf(emergencies[k], t))

\* C39: the recoveryNotificationShown entry never keeps a newer snapshot
\* from being offered: when the page is loaded with a snapshot of a running
\* simulation that was updated less than an hour ago, the resume prompt is
\* offered.
C39_OfferedFlagLifetime ==
    [][(/\ open
        /\ simulationState # <<>>
        /\ simulationState[1].isRunning
        /\ isRecent(simulationState[1].lastUpdated))
          => toast'.state = "shown"]_vars

\* C40: when a tick of the status poller observes that the simulation is
\* no longer Running, the persisted snapshot is cleared or marked not
\* running, so that no later page load offers to resume it.
C40_EndedNotResumable ==
    [][statusEnds => \/ simulationState' = <<>>
                     \/ ~simulationState'[1].isRunning]_vars

(***************************************************************************)
(* Properties of the elapsed-time ticker                                   *)
(***************************************************************************)

====
